---- MODULE Spec2Model ----
(***************************************************************************)
(* Model of the transcript segmentation pipeline of the earnings-call      *)
(* analyzer: utils/parser.py and utils/pdf_utils.py.                       *)
(*                                                                         *)
(* Text is a TLA+ string, that is a sequence of characters; the character  *)
(* at position i (1-based) of s is SubSeq(s, i, i).  Python offsets are    *)
(* 0-based, so a Python offset k is the position k + 1 here.  U+2014, the  *)
(* em-dash of the speaker patterns, is written EmDash.                     *)
(***************************************************************************)
EXTENDS Integers, Sequences, FiniteSets, TLC

VARIABLES
    b_text,          \* boundary detector: the text handed to both functions
    call_start,      \* result of find_conference_call_start, NotCalled before
    opening_text,    \* first component of find_q_a_split's result
    qa_text,         \* second component of find_q_a_split's result
    split_done,      \* whether find_q_a_split has returned
    c_text,          \* speaker chunker: the text handed to basic_speaker_chunks
    c_lines,         \* text.splitlines()
    c_idx,           \* number of lines the loop has consumed
    cur,             \* the open chunk: <<>> for None, <<chunk>> otherwise
    chunks,          \* the list of closed chunks
    opened_by,       \* for every chunk opened so far, the branch that opened it
    c_done,          \* whether basic_speaker_chunks has returned
    r_chunks,        \* role mapper: the argument chunks
    participant_list,\* the argument participant_list
    score,           \* fuzz.token_sort_ratio on the labels and names at hand
    r_chunks0,       \* the chunks as they were handed over
    participant_list0, \* the participant list as it was handed over
    r_pc,            \* "idle" between calls, "loop" inside a call
    r_idx,           \* number of chunks the loop has consumed
    mapped,          \* the list the running call builds
    results,         \* what the calls so far returned, in order
    q_block,         \* question detector: the argument block
    q_result,        \* what is_question_block returned
    q_done,          \* whether is_question_block has returned
    q_chunks,        \* Q&A pairing: the argument q_chunks
    p_pc,            \* "outer" or "inner" loop, "done" after the return
    p_i,             \* i, the position of the outer loop (0-based)
    p_j,             \* j, the position of the inner loop (0-based)
    answers,         \* the answers collected for the question at i
    pairs,           \* the list of pairs built so far
    t_text,          \* participant scan: the argument text
    t_lines,         \* text.split('\n')
    t_idx,           \* number of lines the loop has consumed
    participants,    \* the list built so far
    t_done,          \* whether extract_participants_from_first_pages returned
    n_text,          \* text normalizer: the argument of clean_text
    n_result,        \* what clean_text returned
    n_done,          \* whether clean_text has returned
    x_pages,         \* page extraction: what extract_text() does on each page
    x_limit,         \* n of get_first_pages_text_from_bytes, NoLimit otherwise
    x_idx,           \* number of pages the loop has consumed
    page_texts,      \* the list "text" of cleaned page texts
    x_result,        \* the string returned
    x_done,          \* whether the function has returned
    k_exists,        \* index clearing: whether ./faiss_index exists on disk
    k_locked,        \* how many more removal attempts will find it locked
    k_cache_raises,  \* whether st.cache_resource.clear() raises
    k_session,       \* st.session_state: processed, faiss_index, faiss_metadata,
                     \* faiss_contents, clear_requested
    k_op,            \* the function running, "none" between calls
    k_pc,            \* the statement the running function is at
    attempt,         \* number of removal attempts the running call has made
    k_slept,         \* the delays slept between attempts, in half seconds
    success,         \* what clear_faiss_index returned: "True", "False", "None"
    k_result,        \* what the call returned, "none" before
    s_index,         \* index search: the stored vectors' similarity to the query
    metadata,        \* the argument metadata
    contents,        \* the argument contents
    top_k,           \* the argument top_k
    indices,         \* the slots index.search returned: score and position
    s_i,             \* number of slots the loop has consumed
    s_results,       \* the list "results"
    s_pc,            \* "call", "loop", "done" or "raised"
    e_block,         \* question context: the argument question_block
    e_result,        \* what extract_question_context returned
    e_done,          \* whether extract_question_context has returned
    g_pc,            \* processing pipeline: the statement the Process handler is at
    g_full_text,       \* g_full_text, from the conference call start on
    g_opening_text,  \* opening_text of the handler
    g_qa_text,       \* qa_text of the handler
    opening_chunks_raw,\* basic_speaker_chunks(opening_text)
    qa_chunks_raw    \* basic_speaker_chunks(qa_text)

boundaryVars == <<b_text, call_start, opening_text, qa_text, split_done>>
chunkVars == <<c_text, c_lines, c_idx, cur, chunks, opened_by, c_done>>

roleVars == <<r_chunks, participant_list, score, r_chunks0, participant_list0,
              r_pc, r_idx, mapped, results>>
questionVars == <<q_block, q_result, q_done>>
pairVars == <<q_chunks, p_pc, p_i, p_j, answers, pairs>>
participantVars == <<t_text, t_lines, t_idx, participants, t_done>>
cleanVars == <<n_text, n_result, n_done>>
extractVars == <<x_pages, x_limit, x_idx, page_texts, x_result, x_done>>
clearVars == <<k_exists, k_locked, k_cache_raises, k_session, k_op, k_pc,
               attempt, k_slept, success, k_result>>
searchVars == <<s_index, metadata, contents, top_k, indices, s_i, s_results,
                s_pc>>

contextVars == <<e_block, e_result, e_done>>

pipelineVars == <<g_pc, g_full_text, g_opening_text, g_qa_text,
                  opening_chunks_raw, qa_chunks_raw>>

vars == <<boundaryVars, chunkVars, roleVars, questionVars,
          pairVars, participantVars, cleanVars, extractVars,
          clearVars, searchVars, contextVars, pipelineVars>>

(***************************************************************************)
(* Bounds of the model.                                                    *)
(***************************************************************************)
MaxBoundaryFrags == 4
MaxLineFrags == 4
MaxLines == 3
MaxRoleChunks == 2
MaxParticipants == 2
MaxCalls == 2
MaxQuestionFrags == 3
MaxPairChunks == 4
MaxParticipantFrags == 4
MaxCleanFrags == 4
MaxPages == 3
MaxFirstPages == 2
MaxLocked == 6
MaxDocs == 3
MaxTopK == 3
MaxContextFrags == 3
MaxPipelinePages == 2

(***************************************************************************)
(* Every specification runs one component; the variables of the other      *)
(* components keep their idle values.                                      *)
(***************************************************************************)
NotCalled == -1

IdleBoundary ==
    /\ b_text = ""
    /\ call_start = NotCalled
    /\ opening_text = ""
    /\ qa_text = ""
    /\ split_done = FALSE

IdleChunker ==
    /\ c_text = ""
    /\ c_lines = <<>>
    /\ c_idx = 0
    /\ cur = <<>>
    /\ chunks = <<>>
    /\ opened_by = <<>>
    /\ c_done = FALSE

IdleRoles ==
    /\ r_chunks = <<>>
    /\ participant_list = <<>>
    /\ score = <<>>
    /\ r_chunks0 = <<>>
    /\ participant_list0 = <<>>
    /\ r_pc = "idle"
    /\ r_idx = 0
    /\ mapped = <<>>
    /\ results = <<>>

IdleQuestion ==
    /\ q_block = <<>>
    /\ q_result = FALSE
    /\ q_done = FALSE

IdlePairs ==
    /\ q_chunks = <<>>
    /\ p_pc = "outer"
    /\ p_i = 0
    /\ p_j = 0
    /\ answers = <<>>
    /\ pairs = <<>>

IdleParticipants ==
    /\ t_text = ""
    /\ t_lines = <<>>
    /\ t_idx = 0
    /\ participants = <<>>
    /\ t_done = FALSE

IdleClean ==
    /\ n_text = ""
    /\ n_result = ""
    /\ n_done = FALSE

NoLimit == -1

IdleExtract ==
    /\ x_pages = <<>>
    /\ x_limit = NoLimit
    /\ x_idx = 0
    /\ page_texts = <<>>
    /\ x_result = ""
    /\ x_done = FALSE

Session(processed, faiss_index, faiss_metadata, faiss_contents, clear_requested) ==
    [processed |-> processed, faiss_index |-> faiss_index,
     faiss_metadata |-> faiss_metadata, faiss_contents |-> faiss_contents,
     clear_requested |-> clear_requested]

\* What is stored with an index, in memory and in the files of the directory.
StoredMetadata == <<"metadata">>
StoredContents == <<"contents">>

IdleClear ==
    /\ k_exists = FALSE
    /\ k_locked = 0
    /\ k_cache_raises = FALSE
    /\ k_session = Session(FALSE, "None", <<>>, <<>>, FALSE)
    /\ k_op = "none"
    /\ k_pc = "idle"
    /\ attempt = 0
    /\ k_slept = <<>>
    /\ success = "None"
    /\ k_result = "none"

IdleSearch ==
    /\ s_index = <<>>
    /\ metadata = <<>>
    /\ contents = <<>>
    /\ top_k = 0
    /\ indices = <<>>
    /\ s_i = 0
    /\ s_results = <<>>
    /\ s_pc = "call"

IdleContext ==
    /\ e_block = <<>>
    /\ e_result = <<>>
    /\ e_done = FALSE

IdlePipeline ==
    /\ g_pc = "idle"
    /\ g_full_text = ""
    /\ g_opening_text = ""
    /\ g_qa_text = ""
    /\ opening_chunks_raw = <<>>
    /\ qa_chunks_raw = <<>>

\* The variables outside each component.
notBoundary ==
    <<chunkVars, roleVars, questionVars, pairVars, participantVars,
      cleanVars, extractVars, clearVars, searchVars, contextVars,
      pipelineVars>>
notChunker ==
    <<boundaryVars, roleVars, questionVars, pairVars, participantVars,
      cleanVars, extractVars, clearVars, searchVars, contextVars,
      pipelineVars>>
notRoles ==
    <<boundaryVars, chunkVars, questionVars, pairVars,
      participantVars, cleanVars, extractVars, clearVars, searchVars,
      contextVars, pipelineVars>>
notQuestion ==
    <<boundaryVars, chunkVars, roleVars, pairVars, participantVars,
      cleanVars, extractVars, clearVars, searchVars, contextVars,
      pipelineVars>>
notPairs ==
    <<boundaryVars, chunkVars, roleVars, questionVars,
      participantVars, cleanVars, extractVars, clearVars, searchVars,
      contextVars, pipelineVars>>
notParticipants ==
    <<boundaryVars, chunkVars, roleVars, questionVars, pairVars,
      cleanVars, extractVars, clearVars, searchVars, contextVars,
      pipelineVars>>
notClean ==
    <<boundaryVars, chunkVars, roleVars, questionVars, pairVars,
      participantVars, extractVars, clearVars, searchVars,
      contextVars, pipelineVars>>
notExtract ==
    <<boundaryVars, chunkVars, roleVars, questionVars, pairVars,
      participantVars, cleanVars, clearVars, searchVars, contextVars,
      pipelineVars>>
notClear ==
    <<boundaryVars, chunkVars, roleVars, questionVars, pairVars,
      participantVars, cleanVars, extractVars, searchVars,
      contextVars, pipelineVars>>
notSearch ==
    <<boundaryVars, chunkVars, roleVars, questionVars, pairVars,
      participantVars, cleanVars, extractVars, clearVars, contextVars,
      pipelineVars>>
notContext ==
    <<boundaryVars, chunkVars, roleVars, questionVars, pairVars,
      participantVars, cleanVars, extractVars, clearVars, searchVars,
      pipelineVars>>
notPipeline ==
    <<boundaryVars, chunkVars, roleVars, questionVars, pairVars,
      participantVars, cleanVars, extractVars, clearVars, searchVars,
      contextVars>>

(***************************************************************************)
(* Characters and the character classes of Python's re and str.            *)
(***************************************************************************)
EmDash == "~"

UpperStr == "ABCDEFGHIJKLMNOPQRSTUVWXYZ"
LowerStr == "abcdefghijklmnopqrstuvwxyz"
DigitStr == "0123456789"

Ch(s, i) == SubSeq(s, i, i)

CharsOf(s) == {Ch(s, i) : i \in 1..Len(s)}

UpperSet == CharsOf(UpperStr)
LowerSet == CharsOf(LowerStr)
DigitSet == CharsOf(DigitStr)
SpaceSet == {" ", "\t", "\n", "\r", "\f"}

IsUpper(c) == c \in UpperSet
IsLower(c) == c \in LowerSet
IsDigit(c) == c \in DigitSet
IsSpace(c) == c \in SpaceSet
IsWordChar(c) == c \in UpperSet \cup LowerSet \cup DigitSet \cup {"_"}

LowerMap == [c \in UpperSet |->
               Ch(LowerStr, CHOOSE i \in 1..26 : Ch(UpperStr, i) = c)]
UpperMap == [c \in LowerSet |->
               Ch(UpperStr, CHOOSE i \in 1..26 : Ch(LowerStr, i) = c)]

LowerCh(c) == IF c \in UpperSet THEN LowerMap[c] ELSE c
UpperCh(c) == IF c \in LowerSet THEN UpperMap[c] ELSE c

RECURSIVE ToLower(_)
ToLower(s) == IF s = "" THEN "" ELSE LowerCh(Head(s)) \o ToLower(Tail(s))

RECURSIVE ToUpper(_)
ToUpper(s) == IF s = "" THEN "" ELSE UpperCh(Head(s)) \o ToUpper(Tail(s))

\* str.strip(): leading and trailing whitespace removed.
RECURSIVE LStrip(_)
LStrip(s) == IF s # "" /\ IsSpace(Head(s)) THEN LStrip(Tail(s)) ELSE s

RECURSIVE RStrip(_)
RStrip(s) ==
    IF s # "" /\ IsSpace(Ch(s, Len(s)))
    THEN RStrip(SubSeq(s, 1, Len(s) - 1))
    ELSE s

Strip(s) == RStrip(LStrip(s))

\* s[k:] and s[:k] for a Python offset 0 <= k <= len(s).
SliceFrom(s, k) == SubSeq(s, k + 1, Len(s))
SliceTo(s, k) == SubSeq(s, 1, k)

Min(S) == CHOOSE x \in S : \A y \in S : x <= y
Max(S) == CHOOSE x \in S : \A y \in S : x >= y

\* All concatenations of at most n fragments of F.
RECURSIVE Concat(_)
Concat(q) == IF q = <<>> THEN "" ELSE Head(q) \o Concat(Tail(q))

FragTexts(F, n) == {Concat(q) : q \in UNION {[1..k -> F] : k \in 0..n}}

(***************************************************************************)
(* Regular expressions of the boundary and question patterns.  Five shapes *)
(* occur: a literal phrase; a phrase between word boundaries (\b...\b);    *)
(* two phrases joined by ".*" (any run of characters other than newline);  *)
(* \ba\b.*b; and \ba\s+b\b.  An alternation (x|y) is listed as one pattern *)
(* per alternative.  All are searched with re.I.                           *)
(***************************************************************************)
Lit(a) == [kind |-> "lit", a |-> ToLower(a), b |-> ""]
Word(a) == [kind |-> "word", a |-> ToLower(a), b |-> ""]
Gap(a, b) == [kind |-> "gap", a |-> ToLower(a), b |-> ToLower(b)]
WordGap(a, b) == [kind |-> "wordgap", a |-> ToLower(a), b |-> ToLower(b)]
WordPair(a, b) == [kind |-> "wordpair", a |-> ToLower(a), b |-> ToLower(b)]

\* The phrase lit stands at position i of s.
LitAt(s, i, lit) ==
    /\ i >= 1
    /\ i + Len(lit) - 1 <= Len(s)
    /\ SubSeq(s, i, i + Len(lit) - 1) = lit

\* \b at the gap before position i of s (between s[i-1] and s[i]).
WordBoundaryAt(s, i) ==
    LET before == i > 1 /\ IsWordChar(Ch(s, i - 1))
        after == i <= Len(s) /\ IsWordChar(Ch(s, i))
    IN  before # after

\* The pattern p matches the lower-cased text s starting at position i.
PatternAt(p, s, i) ==
    CASE p.kind = "lit" -> LitAt(s, i, p.a)
      [] p.kind = "word" ->
            /\ LitAt(s, i, p.a)
            /\ WordBoundaryAt(s, i)
            /\ WordBoundaryAt(s, i + Len(p.a))
      [] p.kind = "gap" ->
            /\ LitAt(s, i, p.a)
            /\ \E j \in (i + Len(p.a))..Len(s) :
                  /\ LitAt(s, j, p.b)
                  /\ \A k \in (i + Len(p.a))..(j - 1) : Ch(s, k) # "\n"
      [] p.kind = "wordgap" ->
            /\ LitAt(s, i, p.a)
            /\ WordBoundaryAt(s, i)
            /\ WordBoundaryAt(s, i + Len(p.a))
            /\ \E j \in (i + Len(p.a))..Len(s) :
                  /\ LitAt(s, j, p.b)
                  /\ \A k \in (i + Len(p.a))..(j - 1) : Ch(s, k) # "\n"
      [] p.kind = "wordpair" ->
            /\ LitAt(s, i, p.a)
            /\ WordBoundaryAt(s, i)
            /\ \E j \in (i + Len(p.a) + 1)..Len(s) :
                  /\ \A k \in (i + Len(p.a))..(j - 1) : IsSpace(Ch(s, k))
                  /\ LitAt(s, j, p.b)
                  /\ WordBoundaryAt(s, j + Len(p.b))

\* re.search(p, s, re.I): the 0-based start of the leftmost match, NoMatch
\* for None.  re.I is modelled by lower-casing the text and the phrases.
NoMatch == -1

RECURSIVE SearchFrom(_, _, _)
SearchFrom(p, s, i) ==
    IF i > Len(s) THEN NoMatch
    ELSE IF PatternAt(p, s, i) THEN i - 1
    ELSE SearchFrom(p, s, i + 1)

ReSearch(p, s) == SearchFrom(p, ToLower(s), 1)

(***************************************************************************)
(* utils/parser.py: QA_PATTERNS and find_q_a_split.                        *)
(***************************************************************************)
QA_PATTERNS == <<
    Lit("Questions and Answers"), Lit("Question-and-Answer"), Word("Q&A"),
    Lit("Operator:"), Lit("We will now open the line for questions"),
    Lit("First question is from"), Lit("our first question"),
    Lit("first question"),
    Lit("Now we will open the floor for questions"),
    Lit("Let's open the floor for questions"),
    Lit("We'll now open the floor for questions"),
    Lit("Now we'll take questions"),
    Lit("Let's take some questions"), Lit("We'll take some questions"),
    Lit("Questions from the floor"), Lit("Questions from analysts"),
    Lit("Analyst questions"), Lit("Investor questions") >>

\* The loop "for pat in patterns: m = re.search(pat, text, re.I); if m:
\* return ...": the index of the first pattern of the list, from n on, that
\* matches the lower-cased text ls; 0 when none does.
RECURSIVE FirstMatchingFrom(_, _, _)
FirstMatchingFrom(patterns, ls, n) ==
    IF n > Len(patterns) THEN 0
    ELSE IF SearchFrom(patterns[n], ls, 1) # NoMatch THEN n
    ELSE FirstMatchingFrom(patterns, ls, n + 1)

\* Mutant: the pattern whose match starts earliest wins, not the first listed.
FirstMatching_earliest(patterns, s) ==
    LET pick(ls) ==
          LET at == [n \in 1..Len(patterns) |-> SearchFrom(patterns[n], ls, 1)]
              ok == {n \in 1..Len(patterns) : at[n] # NoMatch}
          IN  IF ok = {} THEN 0
              ELSE CHOOSE n \in ok : \A m \in ok :
                      at[n] < at[m] \/ (at[n] = at[m] /\ n <= m)
    IN  CHOOSE r \in {pick(ls) : ls \in {ToLower(s)}} : TRUE

FirstMatching(patterns, s) == FirstMatchingFrom(patterns, ToLower(s), 1)

\* Mutant: the Q&A part starts after the matched phrase's first character.
find_q_a_split_drop(full_text) ==
    LET n == FirstMatching(QA_PATTERNS, full_text)
    IN  IF n = 0
        THEN <<full_text, "">>
        ELSE LET start == ReSearch(QA_PATTERNS[n], full_text)
             IN  <<SliceTo(full_text, start), SliceFrom(full_text, start + 1)>>

\* Mutant: without a match the whole text is returned as the Q&A part.
find_q_a_split_swapped(full_text) ==
    LET n == FirstMatching(QA_PATTERNS, full_text)
    IN  IF n = 0
        THEN <<"", full_text>>
        ELSE LET start == ReSearch(QA_PATTERNS[n], full_text)
             IN  <<SliceTo(full_text, start), SliceFrom(full_text, start)>>

find_q_a_split(full_text) ==
    LET n == FirstMatching(QA_PATTERNS, full_text)
    IN  IF n = 0
        THEN <<full_text, "">>
        ELSE LET start == ReSearch(QA_PATTERNS[n], full_text)
             IN  <<SliceTo(full_text, start), SliceFrom(full_text, start)>>

(***************************************************************************)
(* utils/pdf_utils.py: find_conference_call_start.                         *)
(***************************************************************************)
CALL_START_PATTERNS == <<
    Lit("Ladies and gentlemen, welcome to"),
    Lit("Good morning and welcome to"),
    Lit("Good afternoon and welcome to"),
    Lit("Thank you for joining us"),
    Gap("Welcome to", "earnings call"),
    Gap("Welcome to", "conference call"),
    Gap("Thank you for joining", "earnings"),
    Gap("Thank you for joining", "conference") >>

find_conference_call_start(text) ==
    LET n == FirstMatching(CALL_START_PATTERNS, text)
    IN  IF n = 0 THEN 0 ELSE ReSearch(CALL_START_PATTERNS[n], text)

(***************************************************************************)
(* The boundary detector as a state machine: a text is given, and the two  *)
(* functions are called on it in the order of app.py, the call start       *)
(* first and the Q&A split second.                                         *)
(***************************************************************************)
BoundaryFrags ==
    {"OPERATOR: Welcome to", " the Earnings Call", "thank you for joining us",
     " q&a", "\n"}

BoundaryTexts == FragTexts(BoundaryFrags, MaxBoundaryFrags)

InitBoundary ==
    /\ b_text \in BoundaryTexts
    /\ call_start = NotCalled
    /\ opening_text = ""
    /\ qa_text = ""
    /\ split_done = FALSE
    /\ IdleChunker
    /\ IdleRoles
    /\ IdleQuestion
    /\ IdlePairs
    /\ IdleParticipants
    /\ IdleClean
    /\ IdleExtract
    /\ IdleClear
    /\ IdleSearch
    /\ IdleContext
    /\ IdlePipeline

FindCallStart ==
    /\ call_start = NotCalled
    /\ call_start' = find_conference_call_start(b_text)
    /\ UNCHANGED <<b_text, opening_text, qa_text, split_done>>
    /\ UNCHANGED notBoundary

FindQASplit ==
    /\ call_start # NotCalled
    /\ ~split_done
    /\ LET r == find_q_a_split(b_text)
       IN  /\ opening_text' = r[1]
           /\ qa_text' = r[2]
    /\ split_done' = TRUE
    /\ UNCHANGED <<b_text, call_start>>
    /\ UNCHANGED notBoundary

NextBoundary == FindCallStart \/ FindQASplit

(***************************************************************************)
(* utils/parser.py: the speaker-line regular expressions.  A label is one  *)
(* first character ([A-Z], or [A-Za-z] in the relaxed pattern) followed by *)
(* MinLabelRest to MaxLabelRest characters of the rest class; the          *)
(* quantifier is greedy, so the longest label that lets the whole pattern  *)
(* match is taken.  The operators take one line, without line breaks, as   *)
(* the chunker passes it.                                                  *)
(***************************************************************************)
MinLabelRest == 2
MaxLabelRest == 60

SepSet == {":", "-", EmDash}

IsLabelFirst(c, alt) == IsUpper(c) \/ (alt /\ IsLower(c))
IsLabelRest(c, alt) ==
    IsUpper(c) \/ (alt /\ IsLower(c)) \/ IsDigit(c) \/ c \in {" ", ".", "-"}

\* The length of the longest prefix of s that is a first character followed
\* by at most MaxLabelRest rest characters; 0 without a first character.
RECURSIVE LabelRunFrom(_, _, _)
LabelRunFrom(s, i, alt) ==
    IF i <= Len(s) /\ i <= 1 + MaxLabelRest /\ IsLabelRest(Ch(s, i), alt)
    THEN LabelRunFrom(s, i + 1, alt)
    ELSE i - 1

LabelRun(s, alt) ==
    IF s # "" /\ IsLabelFirst(Ch(s, 1), alt) THEN LabelRunFrom(s, 2, alt) ELSE 0

LabelLengths(s, alt) == (1 + MinLabelRest)..LabelRun(s, alt)

NoGroups == [ok |-> FALSE, speaker |-> "", message |-> ""]

\* Mutant: the message may be empty (".*" for ".+").
SpeakerLineMatch_emptymsg(s, alt) ==
    LET cands == {p \in LabelLengths(s, alt) :
                     /\ p + 1 <= Len(s)
                     /\ Ch(s, p + 1) \in SepSet}
    IN  IF cands = {} THEN NoGroups
        ELSE LET p == Max(cands)
             IN  [ok |-> TRUE,
                  speaker |-> SubSeq(s, 1, p),
                  message |-> LStrip(SubSeq(s, p + 2, Len(s)))]

\* Mutant: the label is the shortest one that matches (a lazy quantifier).
SpeakerLineMatch_lazy(s, alt) ==
    LET cands == {p \in LabelLengths(s, alt) :
                     /\ p + 2 <= Len(s)
                     /\ Ch(s, p + 1) \in SepSet}
    IN  IF cands = {} THEN NoGroups
        ELSE LET p == Min(cands)
             IN  [ok |-> TRUE,
                  speaker |-> SubSeq(s, 1, p),
                  message |-> LStrip(SubSeq(s, p + 2, Len(s)))]

\* ^(?P<speaker>LABEL)[:\-~]\s*(?P<message>.+) matched at the start of s
\* (~ for the em-dash).
\* \s* is greedy and gives back characters only to leave one to ".+".
SpeakerLineMatch(s, alt) ==
    LET cands == {p \in LabelLengths(s, alt) :
                     /\ p + 2 <= Len(s)
                     /\ Ch(s, p + 1) \in SepSet}
    IN  IF cands = {} THEN NoGroups
        ELSE LET p == Max(cands)
                 rest == SubSeq(s, p + 2, Len(s))
             IN  [ok |-> TRUE,
                  speaker |-> SubSeq(s, 1, p),
                  message |-> IF LStrip(rest) # "" THEN LStrip(rest)
                              ELSE Ch(rest, Len(rest))]

SPEAKER_LINE_RE(s) == SpeakerLineMatch(s, FALSE)
SPEAKER_LINE_ALT_RE(s) == SpeakerLineMatch(s, TRUE)

\* The last position of the run of whitespace that starts at position i.
RECURSIVE WsEnd(_, _)
WsEnd(s, i) ==
    IF i + 1 <= Len(s) /\ IsSpace(Ch(s, i + 1)) THEN WsEnd(s, i + 1) ELSE i

\* The label lengths p after which \s+[A-Z] matches, followed by at least
\* more further characters.
SpacedLabelLengths(s, more) ==
    {p \in LabelLengths(s, FALSE) :
        /\ p + 1 <= Len(s)
        /\ IsSpace(Ch(s, p + 1))
        /\ WsEnd(s, p + 1) + 1 + more <= Len(s)
        /\ IsUpper(Ch(s, WsEnd(s, p + 1) + 1))}

\* ^(?P<speaker>LABEL)\s+(?P<message>[A-Z].+) matched at the start of s.
SpacedSpeakerMatch(s) ==
    LET cands == SpacedLabelLengths(s, 1)
    IN  IF cands = {} THEN NoGroups
        ELSE LET p == Max(cands)
             IN  [ok |-> TRUE,
                  speaker |-> SubSeq(s, 1, p),
                  message |-> SubSeq(s, WsEnd(s, p + 1) + 1, Len(s))]

\* Mutant: only the two patterns with a separator count.
is_likely_speaker_line_strict(line) ==
    \/ \E p \in LabelLengths(line, FALSE) :
          p + 1 <= Len(line) /\ Ch(line, p + 1) \in SepSet
    \/ \E p \in LabelLengths(line, TRUE) :
          p + 1 <= Len(line) /\ Ch(line, p + 1) \in SepSet

is_likely_speaker_line(line) ==
    \/ \E p \in LabelLengths(line, FALSE) :
          p + 1 <= Len(line) /\ Ch(line, p + 1) \in SepSet
    \/ \E p \in LabelLengths(line, TRUE) :
          p + 1 <= Len(line) /\ Ch(line, p + 1) \in SepSet
    \/ SpacedLabelLengths(line, 0) # {}

extract_speaker_from_line(line) ==
    LET m1 == SpeakerLineMatch(line, FALSE)
        m2 == SpeakerLineMatch(line, TRUE)
        m3 == SpacedSpeakerMatch(line)
    IN  IF m1.ok THEN <<Strip(m1.speaker), Strip(m1.message)>>
        ELSE IF m2.ok THEN <<Strip(m2.speaker), Strip(m2.message)>>
        ELSE IF m3.ok THEN <<Strip(m3.speaker), Strip(m3.message)>>
        ELSE <<"", line>>

(***************************************************************************)
(* utils/parser.py: basic_speaker_chunks, one action per branch of the     *)
(* loop body and one for the code after the loop.                          *)
(***************************************************************************)
UNKNOWN == "UNKNOWN"

\* str.splitlines() for the line breaks \n, \r, \r\n and \f: no empty last
\* line after a final line break.
RECURSIVE SplitLinesFrom(_, _, _)
SplitLinesFrom(s, i, line) ==
    IF i > Len(s) THEN (IF line = "" THEN <<>> ELSE <<line>>)
    ELSE IF Ch(s, i) = "\r" /\ i + 1 <= Len(s) /\ Ch(s, i + 1) = "\n"
         THEN <<line>> \o SplitLinesFrom(s, i + 2, "")
    ELSE IF Ch(s, i) \in {"\n", "\r", "\f"}
         THEN <<line>> \o SplitLinesFrom(s, i + 1, "")
    ELSE SplitLinesFrom(s, i + 1, line \o Ch(s, i))

SplitLines(s) == SplitLinesFrom(s, 1, "")

Chunk(speaker, text) == [speaker_raw |-> speaker, text |-> text]

\* The line the loop is at, stripped, and the match the loop body computes:
\* the primary pattern first, the relaxed one if it fails.
LineStrip == Strip(c_lines[c_idx + 1])

LineMatch(line_strip) ==
    IF SPEAKER_LINE_RE(line_strip).ok
    THEN SPEAKER_LINE_RE(line_strip)
    ELSE SPEAKER_LINE_ALT_RE(line_strip)

InLoop == ~c_done /\ c_idx < Len(c_lines)

\* Mutant: a blank line closes the open chunk.
SkipBlank_close ==
    /\ InLoop
    /\ LineStrip = ""
    /\ chunks' = chunks \o cur
    /\ cur' = <<>>
    /\ c_idx' = c_idx + 1
    /\ UNCHANGED <<c_text, c_lines, opened_by, c_done>>
    /\ UNCHANGED notChunker

\* if not line_strip: continue
SkipBlank ==
    /\ InLoop
    /\ LineStrip = ""
    /\ c_idx' = c_idx + 1
    /\ UNCHANGED <<c_text, c_lines, cur, chunks, opened_by, c_done>>
    /\ UNCHANGED notChunker

\* Mutant: the open chunk is replaced without being closed.
OpenChunk_noclose ==
    /\ InLoop
    /\ LineStrip # ""
    /\ \E m \in {LineMatch(LineStrip)} :
          /\ m.ok
          /\ cur' = <<Chunk(Strip(m.speaker), Strip(m.message))>>
    /\ opened_by' = Append(opened_by, "label")
    /\ c_idx' = c_idx + 1
    /\ UNCHANGED <<c_text, c_lines, chunks, c_done>>
    /\ UNCHANGED notChunker

\* if m: close the open chunk, open a new one
OpenChunk ==
    /\ InLoop
    /\ LineStrip # ""
    /\ \E m \in {LineMatch(LineStrip)} :
          /\ m.ok
          /\ chunks' = chunks \o cur
          /\ cur' = <<Chunk(Strip(m.speaker), Strip(m.message))>>
    /\ opened_by' = Append(opened_by, "label")
    /\ c_idx' = c_idx + 1
    /\ UNCHANGED <<c_text, c_lines, c_done>>
    /\ UNCHANGED notChunker

\* Mutant: the line is consumed without being appended.
AppendLine_drop ==
    /\ InLoop
    /\ LineStrip # ""
    /\ ~LineMatch(LineStrip).ok
    /\ cur # <<>>
    /\ c_idx' = c_idx + 1
    /\ UNCHANGED <<c_text, c_lines, cur, chunks, opened_by, c_done>>
    /\ UNCHANGED notChunker

\* else, if cur: cur["text"] += "\n" + line_strip
AppendLine ==
    /\ InLoop
    /\ LineStrip # ""
    /\ ~LineMatch(LineStrip).ok
    /\ cur # <<>>
    /\ cur' = <<Chunk(cur[1].speaker_raw, cur[1].text \o "\n" \o LineStrip)>>
    /\ c_idx' = c_idx + 1
    /\ UNCHANGED <<c_text, c_lines, chunks, opened_by, c_done>>
    /\ UNCHANGED notChunker

\* else, likely a speaker line and a speaker is extracted from it
RecoverSpeaker ==
    /\ InLoop
    /\ LineStrip # ""
    /\ ~LineMatch(LineStrip).ok
    /\ cur = <<>>
    /\ is_likely_speaker_line(LineStrip)
    /\ \E r \in {extract_speaker_from_line(LineStrip)} :
          /\ r[1] # ""
          /\ cur' = <<Chunk(r[1], r[2])>>
    /\ opened_by' = Append(opened_by, "recovered")
    /\ c_idx' = c_idx + 1
    /\ UNCHANGED <<c_text, c_lines, chunks, c_done>>
    /\ UNCHANGED notChunker

\* else, likely a speaker line but no speaker is extracted from it
OpenUnknownUnsplit ==
    /\ InLoop
    /\ LineStrip # ""
    /\ ~LineMatch(LineStrip).ok
    /\ cur = <<>>
    /\ is_likely_speaker_line(LineStrip)
    /\ extract_speaker_from_line(LineStrip)[1] = ""
    /\ cur' = <<Chunk(UNKNOWN, LineStrip)>>
    /\ opened_by' = Append(opened_by, "sentinel")
    /\ c_idx' = c_idx + 1
    /\ UNCHANGED <<c_text, c_lines, chunks, c_done>>
    /\ UNCHANGED notChunker

\* else, not likely a speaker line
OpenUnknown ==
    /\ InLoop
    /\ LineStrip # ""
    /\ ~LineMatch(LineStrip).ok
    /\ cur = <<>>
    /\ ~is_likely_speaker_line(LineStrip)
    /\ cur' = <<Chunk(UNKNOWN, LineStrip)>>
    /\ opened_by' = Append(opened_by, "sentinel")
    /\ c_idx' = c_idx + 1
    /\ UNCHANGED <<c_text, c_lines, chunks, c_done>>
    /\ UNCHANGED notChunker

\* after the loop: if cur: chunks.append(cur); return chunks
ReturnChunks ==
    /\ ~c_done
    /\ c_idx = Len(c_lines)
    /\ chunks' = chunks \o cur
    /\ c_done' = TRUE
    /\ UNCHANGED <<c_text, c_lines, c_idx, cur, opened_by>>
    /\ UNCHANGED notChunker

(***************************************************************************)
(* The texts given to the chunker: every single line of at most            *)
(* MaxLineFrags fragments, and every text of at most MaxLines lines taken  *)
(* from SampleLines, one for each branch of the loop.                      *)
(***************************************************************************)
LineFrags == {"AB", "x", "1.", ":", "-", EmDash, " ", "?"}

SampleLines ==
    {"AB C: x y", "Jo Do - hi", "some text", "AB CD Ef", "AB:", "  ",
     " x? ", "UNKNOWN: u", "AB - C - x", "A-B: x"}

RECURSIVE JoinLines(_)
JoinLines(q) ==
    IF q = <<>> THEN ""
    ELSE IF Len(q) = 1 THEN q[1]
    ELSE q[1] \o "\n" \o JoinLines(Tail(q))

ChunkTexts ==
    FragTexts(LineFrags, MaxLineFrags)
    \cup {JoinLines(q) : q \in UNION {[1..k -> SampleLines] : k \in 0..MaxLines}}

InitChunker ==
    /\ c_text \in ChunkTexts
    /\ c_lines = SplitLines(c_text)
    /\ c_idx = 0
    /\ cur = <<>>
    /\ chunks = <<>>
    /\ opened_by = <<>>
    /\ c_done = FALSE
    /\ IdleBoundary
    /\ IdleRoles
    /\ IdleQuestion
    /\ IdlePairs
    /\ IdleParticipants
    /\ IdleClean
    /\ IdleExtract
    /\ IdleClear
    /\ IdleSearch
    /\ IdleContext
    /\ IdlePipeline

NextChunker ==
    \/ SkipBlank
    \/ OpenChunk
    \/ AppendLine
    \/ RecoverSpeaker
    \/ OpenUnknownUnsplit
    \/ OpenUnknown
    \/ ReturnChunks

(***************************************************************************)
(* utils/parser.py: map_speakers_to_roles.                                 *)
(* fuzz.token_sort_ratio and process.extractOne belong to the rapidfuzz    *)
(* library.  The scorer is a function of the two strings; its values are   *)
(* not fixed by this repository, so score is any function from the labels  *)
(* and names at hand to Scores.                                            *)
(***************************************************************************)
ROLE_THRESHOLD == 75

\* Samples of the scorer's range 0..100, on both sides of the threshold.
Scores == {0, ROLE_THRESHOLD, ROLE_THRESHOLD + 1, 100}

\* d.get(key, default)
Get(d, key, default) == IF key \in DOMAIN d THEN d[key] ELSE default

\* raw.strip().upper() in ("OPERATOR", "MODERATOR")
IsModeratorLabel(raw) == ToUpper(Strip(raw)) \in {"OPERATOR", "MODERATOR"}

\* process.extractOne(raw, participant_list, scorer=...): the choice with
\* the highest score, the first one listed among equals; <<>> for None,
\* when there is no choice.
extractOne(raw, choices) ==
    IF choices = <<>> THEN <<>>
    ELSE LET best == CHOOSE j \in 1..Len(choices) :
                        /\ \A m \in 1..Len(choices) :
                               score[<<raw, choices[m]>>]
                                   <= score[<<raw, choices[j]>>]
                        /\ \A m \in 1..(j - 1) :
                               score[<<raw, choices[m]>>]
                                   < score[<<raw, choices[j]>>]
         IN  <<choices[best], score[<<raw, choices[best]>>], best - 1>>

\* Mutant: a score equal to the threshold is high enough.
IsManagementMatch_atleast(best) == best # <<>> /\ best[2] >= ROLE_THRESHOLD

\* best and best[1] > 75
IsManagementMatch(best) == best # <<>> /\ best[2] > ROLE_THRESHOLD

\* c, the chunk the loop is at, and its raw label.
RoleChunk == r_chunks[r_idx + 1]
RoleRaw == Get(RoleChunk, "speaker_raw", "")

MappedChunk(name, raw, role, text) ==
    [speaker_name |-> name, speaker_raw |-> raw, role |-> role, text |-> text]

InRoleLoop == r_pc = "loop" /\ r_idx < Len(r_chunks)

\* mapped = []
CallMapSpeakers ==
    /\ r_pc = "idle"
    /\ Len(results) < MaxCalls
    /\ r_pc' = "loop"
    /\ r_idx' = 0
    /\ mapped' = <<>>
    /\ UNCHANGED <<r_chunks, participant_list, score, r_chunks0,
                   participant_list0, results>>
    /\ UNCHANGED notRoles

\* if raw.strip().upper() in ("OPERATOR", "MODERATOR")
MapModerator ==
    /\ InRoleLoop
    /\ IsModeratorLabel(RoleRaw)
    /\ mapped' = Append(mapped, MappedChunk(RoleRaw, RoleRaw, "moderator",
                                            Get(RoleChunk, "text", "")))
    /\ r_idx' = r_idx + 1
    /\ UNCHANGED <<r_chunks, participant_list, score, r_chunks0,
                   participant_list0, r_pc, results>>
    /\ UNCHANGED notRoles

\* Mutant: the matched participant is taken off the list.
MapManagement_consume ==
    /\ InRoleLoop
    /\ ~IsModeratorLabel(RoleRaw)
    /\ participant_list # <<>>
    /\ \E best \in {extractOne(RoleRaw, participant_list)} :
          /\ IsManagementMatch(best)
          /\ mapped' = Append(mapped,
                              MappedChunk(best[1], RoleRaw, "management",
                                          Get(RoleChunk, "text", "")))
          /\ participant_list' =
                SubSeq(participant_list, 1, best[3])
                \o SubSeq(participant_list, best[3] + 2, Len(participant_list))
    /\ r_idx' = r_idx + 1
    /\ UNCHANGED <<r_chunks, score, r_chunks0, participant_list0, r_pc,
                   results>>
    /\ UNCHANGED notRoles

\* if participant_list: ... if best and best[1] > 75
MapManagement ==
    /\ InRoleLoop
    /\ ~IsModeratorLabel(RoleRaw)
    /\ participant_list # <<>>
    /\ \E best \in {extractOne(RoleRaw, participant_list)} :
          /\ IsManagementMatch(best)
          /\ mapped' = Append(mapped,
                              MappedChunk(best[1], RoleRaw, "management",
                                          Get(RoleChunk, "text", "")))
    /\ r_idx' = r_idx + 1
    /\ UNCHANGED <<r_chunks, participant_list, score, r_chunks0,
                   participant_list0, r_pc, results>>
    /\ UNCHANGED notRoles

\* if participant_list: ... else: name = raw; role = "investor"
MapInvestorLowScore ==
    /\ InRoleLoop
    /\ ~IsModeratorLabel(RoleRaw)
    /\ participant_list # <<>>
    /\ ~IsManagementMatch(extractOne(RoleRaw, participant_list))
    /\ mapped' = Append(mapped, MappedChunk(RoleRaw, RoleRaw, "investor",
                                            Get(RoleChunk, "text", "")))
    /\ r_idx' = r_idx + 1
    /\ UNCHANGED <<r_chunks, participant_list, score, r_chunks0,
                   participant_list0, r_pc, results>>
    /\ UNCHANGED notRoles

\* else (no participant_list): name = raw; role = "investor"
MapInvestorNoList ==
    /\ InRoleLoop
    /\ ~IsModeratorLabel(RoleRaw)
    /\ participant_list = <<>>
    /\ mapped' = Append(mapped, MappedChunk(RoleRaw, RoleRaw, "investor",
                                            Get(RoleChunk, "text", "")))
    /\ r_idx' = r_idx + 1
    /\ UNCHANGED <<r_chunks, participant_list, score, r_chunks0,
                   participant_list0, r_pc, results>>
    /\ UNCHANGED notRoles

\* return mapped
ReturnMapped ==
    /\ r_pc = "loop"
    /\ r_idx >= Len(r_chunks)
    /\ results' = Append(results, mapped)
    /\ r_pc' = "idle"
    /\ UNCHANGED <<r_chunks, participant_list, score, r_chunks0,
                   participant_list0, r_idx, mapped>>
    /\ UNCHANGED notRoles

\* The chunks and rosters the mapper is run on: labels of a moderator in
\* two spellings, of a manager and of an analyst.
RoleChunkSamples ==
    {Chunk("OPERATOR", "t1"), Chunk(" Moderator ", "t2"),
     Chunk("JOHN SMITH", "t1"), Chunk("Analyst A", "t2")}

ParticipantNames == {"John Smith", "Jane Doe"}

RoleChunkLists == UNION {[1..k -> RoleChunkSamples] : k \in 0..MaxRoleChunks}

ParticipantLists ==
    {q \in UNION {[1..k -> ParticipantNames] : k \in 0..MaxParticipants} :
        \A i, j \in 1..Len(q) : q[i] = q[j] => i = j}

\* The pairs the scorer is asked about.
ScoredPairs(chs, names) ==
    {<<chs[i].speaker_raw, names[j]>> :
        i \in {n \in 1..Len(chs) : ~IsModeratorLabel(chs[n].speaker_raw)},
        j \in 1..Len(names)}

InitRoles ==
    /\ r_chunks \in RoleChunkLists
    /\ participant_list \in ParticipantLists
    /\ score \in [ScoredPairs(r_chunks, participant_list) -> Scores]
    /\ r_chunks0 = r_chunks
    /\ participant_list0 = participant_list
    /\ r_pc = "idle"
    /\ r_idx = 0
    /\ mapped = <<>>
    /\ results = <<>>
    /\ IdleBoundary
    /\ IdleChunker
    /\ IdleQuestion
    /\ IdlePairs
    /\ IdleParticipants
    /\ IdleClean
    /\ IdleExtract
    /\ IdleClear
    /\ IdleSearch
    /\ IdleContext
    /\ IdlePipeline

NextRoles ==
    \/ CallMapSpeakers
    \/ MapModerator
    \/ MapManagement
    \/ MapInvestorLowScore
    \/ MapInvestorNoList
    \/ ReturnMapped

(***************************************************************************)
(* utils/parser.py: QUESTION_INDICATORS and is_question_block.             *)
(***************************************************************************)
QUESTION_INDICATORS == <<
    Lit("?"),
    Word("question"), Word("ask"), Word("wondering"), Word("curious"),
    Word("inquire"),
    WordGap("what", "?"), WordGap("how", "?"), WordGap("why", "?"),
    WordGap("when", "?"), WordGap("where", "?"), WordGap("which", "?"),
    WordGap("who", "?"),
    Word("can you"), Word("could you"), Word("would you"), Word("do you") >>

\* question_patterns, local to is_question_block
question_patterns == <<
    Word("analyst"), Word("question"), Word("ask"), Word("wondering"),
    Word("curious"), Word("inquire"),
    WordGap("what", "?"), WordGap("how", "?"), WordGap("why", "?"),
    WordGap("when", "?"), WordGap("where", "?"), WordGap("which", "?"),
    WordGap("who", "?"),
    Word("can you"), Word("could you"), Word("would you"), Word("do you"),
    WordPair("first", "question"), WordPair("first", "one"),
    WordPair("next", "question"), WordPair("next", "one"),
    WordPair("follow-up", "question"), WordPair("follow-up", "one") >>

\* Mutant: the role is not looked at.
is_question_block_norole(block) ==
    \E text \in {ToLower(Get(block, "text", ""))} :
        \/ FirstMatching(QUESTION_INDICATORS, text) # 0
        \/ FirstMatching(question_patterns, text) # 0

\* Mutant: the function ends after the role check.
is_question_block_indicators(block) ==
    \E text \in {ToLower(Get(block, "text", ""))} :
        \/ FirstMatching(QUESTION_INDICATORS, text) # 0
        \/ Get(block, "role", "") = "investor"

is_question_block(block) ==
    \E text \in {ToLower(Get(block, "text", ""))} :
        \/ FirstMatching(QUESTION_INDICATORS, text) # 0
        \/ Get(block, "role", "") = "investor"
        \/ FirstMatching(question_patterns, text) # 0

CallIsQuestionBlock ==
    /\ ~q_done
    /\ q_result' = is_question_block(q_block)
    /\ q_done' = TRUE
    /\ UNCHANGED q_block
    /\ UNCHANGED notQuestion

QuestionFrags ==
    {"what", " ", "?", "An analyst", "can you", "next one", "\n"}

QuestionTexts == FragTexts(QuestionFrags, MaxQuestionFrags)

Roles == {"moderator", "management", "investor"}

QuestionBlocks ==
    {MappedChunk("A", "A", role, text) : role \in Roles, text \in QuestionTexts}

InitQuestion ==
    /\ q_block \in QuestionBlocks
    /\ q_result = FALSE
    /\ q_done = FALSE
    /\ IdleBoundary
    /\ IdleChunker
    /\ IdleRoles
    /\ IdlePairs
    /\ IdleParticipants
    /\ IdleClean
    /\ IdleExtract
    /\ IdleClear
    /\ IdleSearch
    /\ IdleContext
    /\ IdlePipeline

NextQuestion == CallIsQuestionBlock

(***************************************************************************)
(* utils/parser.py: extract_question_context and pair_questions_answers.   *)
(***************************************************************************)
IsLetter(c) == IsUpper(c) \/ IsLower(c)

\* [A-Za-z\s&]
IsCompanyChar(c) == IsLetter(c) \/ IsSpace(c) \/ c = "&"

\* The last position of the run of company characters that starts at i.
RECURSIVE CompanyRunEnd(_, _)
CompanyRunEnd(s, i) ==
    IF i + 1 <= Len(s) /\ IsCompanyChar(Ch(s, i + 1))
    THEN CompanyRunEnd(s, i + 1)
    ELSE i

NoCompany == [ok |-> FALSE, company |-> ""]

\* The word, in any case, stands at position i of s (re.I).
WordAt(s, i, word) ==
    /\ i + Len(word) - 1 <= Len(s)
    /\ ToLower(SubSeq(s, i, i + Len(word) - 1)) = word

\* re.search(r'from\s+([A-Z][A-Za-z\s&]+)', text, re.I) from position i on:
\* group 1, stripped.
RECURSIVE CompanyAfterFrom(_, _)
CompanyAfterFrom(text, i) ==
    IF i > Len(text) THEN NoCompany
    ELSE LET g == WsEnd(text, i + 4) + 1
         IN  IF /\ WordAt(text, i, "from")
                /\ i + 4 <= Len(text)
                /\ IsSpace(Ch(text, i + 4))
                /\ g + 1 <= Len(text)
                /\ IsLetter(Ch(text, g))
                /\ IsCompanyChar(Ch(text, g + 1))
             THEN [ok |-> TRUE,
                   company |-> Strip(SubSeq(text, g, CompanyRunEnd(text, g)))]
             ELSE CompanyAfterFrom(text, i + 1)

\* re.search(r'([A-Z][A-Za-z\s&]+)\s+word', text, re.I) from position g on:
\* group 1, stripped.  The group is greedy: it ends one whitespace
\* character before the last occurrence of the word it can reach.
RECURSIVE CompanyBefore(_, _, _)
CompanyBefore(text, word, g) ==
    IF g > Len(text) THEN NoCompany
    ELSE LET stops == IF IsLetter(Ch(text, g))
                      THEN {a \in (g + 3)..(CompanyRunEnd(text, g) + 1) :
                               /\ IsSpace(Ch(text, a - 1))
                               /\ WordAt(text, a, word)}
                      ELSE {}
         IN  IF stops # {}
             THEN [ok |-> TRUE,
                   company |-> Strip(SubSeq(text, g, Max(stops) - 2))]
             ELSE CompanyBefore(text, word, g + 1)

\* 'needle' in text.lower()
Contains(text, needle) ==
    \E ls \in {ToLower(text)} :
        \E i \in 1..(Len(ls) - Len(needle) + 1) : LitAt(ls, i, needle)

\* Mutant: the check for 'investor' comes before the one for 'analyst'.
extract_question_context_investorfirst(question_block) ==
    LET text == Get(question_block, "text", "")
        c1 == CompanyAfterFrom(text, 1)
        c2 == CompanyBefore(text, "analyst", 1)
        c3 == CompanyBefore(text, "here", 1)
    IN  [speaker |-> Get(question_block, "speaker_name", "Unknown"),
         company |-> IF c1.ok THEN c1.company
                     ELSE IF c2.ok THEN c2.company
                     ELSE IF c3.ok THEN c3.company
                     ELSE "Unknown",
         role |-> IF Contains(text, "investor") THEN "Investor"
                  ELSE IF Contains(text, "analyst") THEN "Analyst"
                  ELSE IF Contains(text, "fund") THEN "Fund Manager"
                  ELSE "Analyst"]

extract_question_context(question_block) ==
    LET text == Get(question_block, "text", "")
        c1 == CompanyAfterFrom(text, 1)
        c2 == CompanyBefore(text, "analyst", 1)
        c3 == CompanyBefore(text, "here", 1)
    IN  [speaker |-> Get(question_block, "speaker_name", "Unknown"),
         company |-> IF c1.ok THEN c1.company
                     ELSE IF c2.ok THEN c2.company
                     ELSE IF c3.ok THEN c3.company
                     ELSE "Unknown",
         role |-> IF Contains(text, "analyst") THEN "Analyst"
                  ELSE IF Contains(text, "investor") THEN "Investor"
                  ELSE IF Contains(text, "fund") THEN "Fund Manager"
                  ELSE "Analyst"]

\* Role-mapped chunks of a Q&A section: an investor's turn, two management
\* statements, and two moderator turns.
PairChunkSamples ==
    {MappedChunk("Ann", "ANN", "investor", "Ann from Acme here"),
     MappedChunk("Bob", "BOB", "management", "We grew"),
     MappedChunk("Dee", "DEE", "management", "Costs fell"),
     MappedChunk("Op", "OPERATOR", "moderator", "next question"),
     MappedChunk("Op", "OPERATOR", "moderator", "Questions")}

\* is_question_block on the chunks of such lists, computed once.
IsQuestionChunk == [c \in PairChunkSamples |-> is_question_block(c)]

\* extract_question_context on the same chunks, computed once.
ContextOfChunk == [c \in PairChunkSamples |-> extract_question_context(c)]

\* q_chunks[i] and q_chunks[j]
PairBlock == q_chunks[p_i + 1]
NextBlock == q_chunks[p_j + 1]

\* next_block.get('role') == 'moderator' and
\* 'question' in next_block.get('text', '').lower()
IsModeratorStop(block) ==
    /\ Get(block, "role", "") = "moderator"
    /\ Contains(Get(block, "text", ""), "question")

\* pairs.append({...}); i = j
PairOf(block, ans) ==
    [question |-> block,
     answers |-> ans,
     question_context |-> ContextOfChunk[block],
     question_speaker |-> Get(block, "speaker_name", "Unknown"),
     answer_speakers |->
        [n \in 1..Len(ans) |-> Get(ans[n], "speaker_name", "Unknown")]]

EmitPair ==
    /\ pairs' = Append(pairs, PairOf(PairBlock, answers))
    /\ p_i' = p_j
    /\ p_pc' = "outer"
    /\ UNCHANGED <<q_chunks, p_j, answers>>

\* if is_question: j = i + 1; answers = []
StartQuestion ==
    /\ p_pc = "outer"
    /\ p_i < Len(q_chunks)
    /\ IsQuestionChunk[PairBlock]
    /\ p_j' = p_i + 1
    /\ answers' = <<>>
    /\ p_pc' = "inner"
    /\ UNCHANGED <<q_chunks, p_i, pairs>>
    /\ UNCHANGED notPairs

\* Mutant: a chunk that is no question opens a pair as well.
SkipNonQuestion_pair ==
    /\ p_pc = "outer"
    /\ p_i < Len(q_chunks)
    /\ ~IsQuestionChunk[PairBlock]
    /\ pairs' = Append(pairs, PairOf(PairBlock, <<>>))
    /\ p_i' = p_i + 1
    /\ UNCHANGED <<q_chunks, p_pc, p_j, answers>>
    /\ UNCHANGED notPairs

\* else: i += 1
SkipNonQuestion ==
    /\ p_pc = "outer"
    /\ p_i < Len(q_chunks)
    /\ ~IsQuestionChunk[PairBlock]
    /\ p_i' = p_i + 1
    /\ UNCHANGED <<q_chunks, p_pc, p_j, answers, pairs>>
    /\ UNCHANGED notPairs

\* Mutant: the chunk that ends the run is taken as an answer first.
CollectAnswer_greedy ==
    /\ p_pc = "inner"
    /\ p_j < Len(q_chunks)
    /\ answers' = Append(answers, NextBlock)
    /\ p_j' = p_j + 1
    /\ UNCHANGED <<q_chunks, p_pc, p_i, pairs>>
    /\ UNCHANGED notPairs

\* answers.append(next_block); j += 1
CollectAnswer ==
    /\ p_pc = "inner"
    /\ p_j < Len(q_chunks)
    /\ ~IsQuestionChunk[NextBlock]
    /\ ~IsModeratorStop(NextBlock)
    /\ answers' = Append(answers, NextBlock)
    /\ p_j' = p_j + 1
    /\ UNCHANGED <<q_chunks, p_pc, p_i, pairs>>
    /\ UNCHANGED notPairs

\* if is_question_block(next_block): break
StopAtQuestion ==
    /\ p_pc = "inner"
    /\ p_j < Len(q_chunks)
    /\ IsQuestionChunk[NextBlock]
    /\ EmitPair
    /\ UNCHANGED notPairs

\* Mutant: a moderator chunk announcing a question is taken as an answer.
StopAtModerator_collect ==
    /\ p_pc = "inner"
    /\ p_j < Len(q_chunks)
    /\ ~IsQuestionChunk[NextBlock]
    /\ IsModeratorStop(NextBlock)
    /\ answers' = Append(answers, NextBlock)
    /\ p_j' = p_j + 1
    /\ UNCHANGED <<q_chunks, p_pc, p_i, pairs>>
    /\ UNCHANGED notPairs

\* if next_block.get('role') == 'moderator' and 'question' in ...: break
StopAtModerator ==
    /\ p_pc = "inner"
    /\ p_j < Len(q_chunks)
    /\ ~IsQuestionChunk[NextBlock]
    /\ IsModeratorStop(NextBlock)
    /\ EmitPair
    /\ UNCHANGED notPairs

\* while j < N ends with j = N
StopAtEnd ==
    /\ p_pc = "inner"
    /\ p_j >= Len(q_chunks)
    /\ EmitPair
    /\ UNCHANGED notPairs

\* return pairs
ReturnPairs ==
    /\ p_pc = "outer"
    /\ p_i >= Len(q_chunks)
    /\ p_pc' = "done"
    /\ UNCHANGED <<q_chunks, p_i, p_j, answers, pairs>>
    /\ UNCHANGED notPairs

PairChunkLists == UNION {[1..k -> PairChunkSamples] : k \in 0..MaxPairChunks}

InitPairs ==
    /\ q_chunks \in PairChunkLists
    /\ p_pc = "outer"
    /\ p_i = 0
    /\ p_j = 0
    /\ answers = <<>>
    /\ pairs = <<>>
    /\ IdleBoundary
    /\ IdleChunker
    /\ IdleRoles
    /\ IdleQuestion
    /\ IdleParticipants
    /\ IdleClean
    /\ IdleExtract
    /\ IdleClear
    /\ IdleSearch
    /\ IdleContext
    /\ IdlePipeline

NextPairs ==
    \/ StartQuestion
    \/ SkipNonQuestion
    \/ CollectAnswer
    \/ StopAtQuestion
    \/ StopAtModerator
    \/ StopAtEnd
    \/ ReturnPairs

(***************************************************************************)
(* utils/pdf_utils.py: extract_participants_from_first_pages.              *)
(***************************************************************************)
\* titles, as written in the source.
TITLES == <<
    "CEO", "CFO", "President", "Chief Executive Officer",
    "Chief Financial Officer", "COO", "Chief Operating Officer", "CTO",
    "Chief Technology Officer", "VP", "Vice President", "Director",
    "Chairman", "Chair", "Head of", "Managing Director",
    "Executive Vice President", "Senior Vice President" >>

\* rf'\b{re.escape(title)}\b' for every title
TitlePatterns == [n \in 1..Len(TITLES) |-> Word(TITLES[n])]

\* text.split(sep) for a separator of one character
RECURSIVE SplitOnFrom(_, _, _, _)
SplitOnFrom(s, sep, i, part) ==
    IF i > Len(s) THEN <<part>>
    ELSE IF Ch(s, i) = sep
         THEN <<part>> \o SplitOnFrom(s, sep, i + 1, "")
         ELSE SplitOnFrom(s, sep, i + 1, part \o Ch(s, i))

SplitOn(s, sep) == SplitOnFrom(s, sep, 1, "")

\* The length of the longest prefix of s without the character c.
RECURSIVE PrefixWithout(_, _, _)
PrefixWithout(s, c, i) ==
    IF i < Len(s) /\ Ch(s, i + 1) # c THEN PrefixWithout(s, c, i + 1) ELSE i

\* re.search(r'^([^,]+)', line): group 1, or no match when the line starts
\* with a comma (or is empty).
NameMatch(line) ==
    LET k == PrefixWithout(line, ",", 0)
    IN  [ok |-> k >= 1, name |-> SubSeq(line, 1, k)]

Participant(name, title, full_line) ==
    [name |-> name, title |-> title, full_line |-> full_line]

\* line = line.strip(), for the line the loop is at
ParticipantLine == Strip(t_lines[t_idx + 1])

InParticipantLoop == ~t_done /\ t_idx < Len(t_lines)

\* if not line: continue
SkipBlankLine ==
    /\ InParticipantLoop
    /\ ParticipantLine = ""
    /\ t_idx' = t_idx + 1
    /\ UNCHANGED <<t_text, t_lines, participants, t_done>>
    /\ UNCHANGED notParticipants

\* for title in titles: no title matches
SkipUntitledLine ==
    /\ InParticipantLoop
    /\ ParticipantLine # ""
    /\ FirstMatching(TitlePatterns, ParticipantLine) = 0
    /\ t_idx' = t_idx + 1
    /\ UNCHANGED <<t_text, t_lines, participants, t_done>>
    /\ UNCHANGED notParticipants

\* Mutant: the last matching title of the vocabulary is recorded.
AddParticipant_lasttitle ==
    /\ InParticipantLoop
    /\ ParticipantLine # ""
    /\ \E line \in {ParticipantLine} :
          /\ FirstMatching(TitlePatterns, line) # 0
          /\ NameMatch(line).ok
          /\ \E t \in {Max({n \in 1..Len(TITLES) :
                              ReSearch(TitlePatterns[n], line) # NoMatch})} :
                participants' =
                    Append(participants,
                           Participant(Strip(NameMatch(line).name),
                                       TITLES[t], line))
    /\ t_idx' = t_idx + 1
    /\ UNCHANGED <<t_text, t_lines, t_done>>
    /\ UNCHANGED notParticipants

\* if re.search(title): if name_match: participants.append({...}); break
AddParticipant ==
    /\ InParticipantLoop
    /\ ParticipantLine # ""
    /\ \E line \in {ParticipantLine} :
       \E t \in {FirstMatching(TitlePatterns, line)} :
          /\ t # 0
          /\ NameMatch(line).ok
          /\ participants' =
                Append(participants,
                       Participant(Strip(NameMatch(line).name),
                                   TITLES[t], line))
    /\ t_idx' = t_idx + 1
    /\ UNCHANGED <<t_text, t_lines, t_done>>
    /\ UNCHANGED notParticipants

\* if re.search(title): name_match is None; break
SkipUnnamedLine ==
    /\ InParticipantLoop
    /\ ParticipantLine # ""
    /\ FirstMatching(TitlePatterns, ParticipantLine) # 0
    /\ ~NameMatch(ParticipantLine).ok
    /\ t_idx' = t_idx + 1
    /\ UNCHANGED <<t_text, t_lines, participants, t_done>>
    /\ UNCHANGED notParticipants

\* return participants
ReturnParticipants ==
    /\ ~t_done
    /\ t_idx >= Len(t_lines)
    /\ t_done' = TRUE
    /\ UNCHANGED <<t_text, t_lines, t_idx, participants>>
    /\ UNCHANGED notParticipants

ParticipantFrags ==
    {"Jo Do", ",", " ", "CEO", "Vice President", "ceos", "\n"}

ParticipantTexts == FragTexts(ParticipantFrags, MaxParticipantFrags)

InitParticipants ==
    /\ t_text \in ParticipantTexts
    /\ t_lines = SplitOn(t_text, "\n")
    /\ t_idx = 0
    /\ participants = <<>>
    /\ t_done = FALSE
    /\ IdleBoundary
    /\ IdleChunker
    /\ IdleRoles
    /\ IdleQuestion
    /\ IdlePairs
    /\ IdleClean
    /\ IdleExtract
    /\ IdleClear
    /\ IdleSearch
    /\ IdleContext
    /\ IdlePipeline

NextParticipants ==
    \/ SkipBlankLine
    \/ SkipUntitledLine
    \/ AddParticipant
    \/ SkipUnnamedLine
    \/ ReturnParticipants

(***************************************************************************)
(* utils/pdf_utils.py: clean_text.                                         *)
(* EmDash stands for every character outside ASCII.                        *)
(***************************************************************************)
NonAsciiSet == {EmDash}

\* The text after its leading characters of the set S.
RECURSIVE DropLeading(_, _)
DropLeading(s, S) ==
    IF s # "" /\ Head(s) \in S THEN DropLeading(Tail(s), S) ELSE s

\* re.sub(r'[S]+', r, s): every maximal run of characters of S becomes r.
RECURSIVE ReplaceRuns(_, _, _)
ReplaceRuns(s, S, r) ==
    IF s = "" THEN ""
    ELSE IF Head(s) \in S
         THEN r \o ReplaceRuns(DropLeading(Tail(s), S), S, r)
         ELSE Head(s) \o ReplaceRuns(Tail(s), S, r)

\* re.sub(r'^\s*\d+\s*$', '', s, flags=re.MULTILINE) on a text without line
\* break, as every text is after its whitespace runs were replaced by one
\* space: the pattern matches the whole text or nothing.
RemovePageNumber(s) ==
    LET digits == Strip(s)
    IN  IF /\ digits # ""
           /\ \A i \in 1..Len(digits) : IsDigit(Ch(digits, i))
        THEN ""
        ELSE s

\* ([A-Z][A-Z0-9 \.\-]{2,60})\s*[:\-~]\s* matched at the start of t: the
\* length of group 1 (the longest that lets the rest match) and the length
\* of the whole match.
LabelSepMatch(t) ==
    LET cands == {p \in LabelLengths(t, FALSE) :
                     /\ WsEnd(t, p) + 1 <= Len(t)
                     /\ Ch(t, WsEnd(t, p) + 1) \in SepSet}
    IN  IF cands = {} THEN [ok |-> FALSE, group |-> 0, end |-> 0]
        ELSE [ok |-> TRUE, group |-> Max(cands),
              end |-> WsEnd(t, WsEnd(t, Max(cands)) + 1)]

\* re.sub(r'([A-Z][A-Z0-9 \.\-]{2,60})\s*[:\-~]\s*', r'\1: ', t)
RECURSIVE NormaliseSpeakers(_)
NormaliseSpeakers(t) ==
    IF t = "" THEN ""
    ELSE LET m == LabelSepMatch(t)
         IN  IF m.ok
             THEN SubSeq(t, 1, m.group) \o ": "
                  \o NormaliseSpeakers(SubSeq(t, m.end + 1, Len(t)))
             ELSE Head(t) \o NormaliseSpeakers(Tail(t))

clean_text(text) ==
    Strip(NormaliseSpeakers(
        ReplaceRuns(
            ReplaceRuns(
                RemovePageNumber(ReplaceRuns(text, SpaceSet, " ")),
                NonAsciiSet, " "),
            {"\f"}, "\n")))

CallCleanText ==
    /\ ~n_done
    /\ n_result' = clean_text(n_text)
    /\ n_done' = TRUE
    /\ UNCHANGED n_text
    /\ UNCHANGED notClean

CleanFrags ==
    {"Hello", "12", "\n12\n", " ", "\n", "AB C -", ":", EmDash, "\f"}

CleanTexts == FragTexts(CleanFrags, MaxCleanFrags)

InitClean ==
    /\ n_text \in CleanTexts
    /\ n_result = ""
    /\ n_done = FALSE
    /\ IdleBoundary
    /\ IdleChunker
    /\ IdleRoles
    /\ IdleQuestion
    /\ IdlePairs
    /\ IdleParticipants
    /\ IdleExtract
    /\ IdleClear
    /\ IdleSearch
    /\ IdleContext
    /\ IdlePipeline

NextClean == CallCleanText

(***************************************************************************)
(* utils/pdf_utils.py: extract_text_from_pdf_bytes and                     *)
(* get_first_pages_text_from_bytes.  PdfReader belongs to PyPDF2: a page   *)
(* is what its extract_text() does, which is to return a string, to return *)
(* None, or to raise.                                                      *)
(***************************************************************************)
Page(outcome, text) == [outcome |-> outcome, text |-> text]

\* pdf_reader.pages, or pdf_reader.pages[:n]
PagesRead ==
    IF x_limit = NoLimit THEN x_pages
    ELSE SubSeq(x_pages, 1, Min({x_limit, Len(x_pages)}))

InPageLoop == ~x_done /\ x_idx < Len(PagesRead)

\* page_text = page.extract_text() or ""; text.append(clean_text(page_text))
ExtractPage ==
    /\ InPageLoop
    /\ PagesRead[x_idx + 1].outcome # "raises"
    /\ \E page_text \in {IF PagesRead[x_idx + 1].outcome = "none" THEN ""
                         ELSE PagesRead[x_idx + 1].text} :
          page_texts' = Append(page_texts, clean_text(page_text))
    /\ x_idx' = x_idx + 1
    /\ UNCHANGED <<x_pages, x_limit, x_result, x_done>>
    /\ UNCHANGED notExtract

\* Mutant: a page that raises leaves an empty text in the list.
SkipFailedPage_blank ==
    /\ InPageLoop
    /\ PagesRead[x_idx + 1].outcome = "raises"
    /\ page_texts' = Append(page_texts, "")
    /\ x_idx' = x_idx + 1
    /\ UNCHANGED <<x_pages, x_limit, x_result, x_done>>
    /\ UNCHANGED notExtract

\* except Exception: continue
SkipFailedPage ==
    /\ InPageLoop
    /\ PagesRead[x_idx + 1].outcome = "raises"
    /\ x_idx' = x_idx + 1
    /\ UNCHANGED <<x_pages, x_limit, page_texts, x_result, x_done>>
    /\ UNCHANGED notExtract

\* return "\n".join(text)
ReturnText ==
    /\ ~x_done
    /\ x_idx >= Len(PagesRead)
    /\ x_result' = JoinLines(page_texts)
    /\ x_done' = TRUE
    /\ UNCHANGED <<x_pages, x_limit, x_idx, page_texts>>
    /\ UNCHANGED notExtract

PageSamples ==
    {Page("raises", ""), Page("none", ""), Page("text", "Hello"),
     Page("text", " AB  - x\n12 ")}

PageLists == UNION {[1..k -> PageSamples] : k \in 0..MaxPages}

InitExtract ==
    /\ x_pages \in PageLists
    /\ x_limit \in {NoLimit} \cup 0..MaxFirstPages
    /\ x_idx = 0
    /\ page_texts = <<>>
    /\ x_result = ""
    /\ x_done = FALSE
    /\ IdleBoundary
    /\ IdleChunker
    /\ IdleRoles
    /\ IdleQuestion
    /\ IdlePairs
    /\ IdleParticipants
    /\ IdleClean
    /\ IdleClear
    /\ IdleSearch
    /\ IdleContext
    /\ IdlePipeline

NextExtract ==
    \/ ExtractPage
    \/ SkipFailedPage
    \/ ReturnText

(***************************************************************************)
(* app.py: clear_database and force_delete_directory, and                  *)
(* utils/faiss_rag.py: clear_faiss_index.  The index directory belongs to  *)
(* the file system: it exists or not, and while another handle holds it    *)
(* shutil.rmtree raises PermissionError; k_locked is the number of         *)
(* attempts that will still find it held.  Delays are counted in half      *)
(* seconds.                                                                *)
(***************************************************************************)
max_attempts == 5

\* the "Clear Database" button of the sidebar
RequestClear ==
    /\ k_pc = "idle"
    /\ k_session.processed
    /\ ~k_session.clear_requested
    /\ k_session' = [k_session EXCEPT !.clear_requested = TRUE]
    /\ UNCHANGED <<k_exists, k_locked, k_cache_raises, k_op, k_pc, attempt,
                   k_slept, success, k_result>>
    /\ UNCHANGED notClear

\* if st.session_state.clear_requested: result = clear_database()
CallClearDatabase ==
    /\ k_pc \in {"idle", "rerun"}
    /\ k_session.clear_requested
    /\ k_op' = "clear_database"
    /\ k_pc' = "clear_faiss_index"
    /\ attempt' = 0
    /\ UNCHANGED <<k_exists, k_locked, k_cache_raises, k_session, k_slept,
                   success, k_result>>
    /\ UNCHANGED notClear

\* clear_faiss_index: the directory exists and shutil.rmtree removes it
ClearIndexRemoved ==
    /\ k_pc = "clear_faiss_index"
    /\ k_exists
    /\ k_locked = 0
    /\ k_exists' = FALSE
    /\ attempt' = attempt + 1
    /\ success' = "True"
    /\ k_pc' = "clear_caches"
    /\ UNCHANGED <<k_locked, k_cache_raises, k_session, k_op, k_slept,
                   k_result>>
    /\ UNCHANGED notClear

\* clear_faiss_index: shutil.rmtree raises, except Exception: return False
ClearIndexFailed ==
    /\ k_pc = "clear_faiss_index"
    /\ k_exists
    /\ k_locked > 0
    /\ k_locked' = k_locked - 1
    /\ attempt' = attempt + 1
    /\ success' = "False"
    /\ k_pc' = "clear_caches"
    /\ UNCHANGED <<k_exists, k_cache_raises, k_session, k_op, k_slept,
                   k_result>>
    /\ UNCHANGED notClear

\* clear_faiss_index: the directory does not exist, the function falls off
\* its end and returns None
ClearIndexMissing ==
    /\ k_pc = "clear_faiss_index"
    /\ ~k_exists
    /\ success' = "None"
    /\ k_pc' = "clear_caches"
    /\ UNCHANGED <<k_exists, k_locked, k_cache_raises, k_session, k_op,
                   attempt, k_slept, k_result>>
    /\ UNCHANGED notClear

\* st.cache_resource.clear(); gc.collect(); time.sleep(1)
ClearCaches ==
    /\ k_pc = "clear_caches"
    /\ ~k_cache_raises
    /\ k_slept' = Append(k_slept, 2)
    /\ k_pc' = "reset_session"
    /\ UNCHANGED <<k_exists, k_locked, k_cache_raises, k_session, k_op,
                   attempt, success, k_result>>
    /\ UNCHANGED notClear

\* except Exception as e: st.error(...); return False
ClearCachesRaises ==
    /\ k_pc = "clear_caches"
    /\ k_cache_raises
    /\ k_result' = "False"
    /\ k_pc' = "done"
    /\ UNCHANGED <<k_exists, k_locked, k_cache_raises, k_session, k_op,
                   attempt, k_slept, success>>
    /\ UNCHANGED notClear

\* Step 5: reset session state
ResetSession ==
    /\ k_pc = "reset_session"
    /\ k_session' = Session(FALSE, "None", <<>>, <<>>, FALSE)
    /\ k_pc' = "return"
    /\ UNCHANGED <<k_exists, k_locked, k_cache_raises, k_op, attempt,
                   k_slept, success, k_result>>
    /\ UNCHANGED notClear

\* if success: return True
ReturnCleared ==
    /\ k_pc = "return"
    /\ success = "True"
    /\ k_result' = "True"
    /\ k_pc' = "done"
    /\ UNCHANGED <<k_exists, k_locked, k_cache_raises, k_session, k_op,
                   attempt, k_slept, success>>
    /\ UNCHANGED notClear

\* else: return "partial"
ReturnPartial ==
    /\ k_pc = "return"
    /\ success # "True"
    /\ k_result' = "partial"
    /\ k_pc' = "done"
    /\ UNCHANGED <<k_exists, k_locked, k_cache_raises, k_session, k_op,
                   attempt, k_slept, success>>
    /\ UNCHANGED notClear

\* time.sleep(1); st.rerun(): the script starts again from its first line
RerunAfterClear ==
    /\ k_pc = "done"
    /\ k_op = "clear_database"
    /\ k_pc' = "rerun"
    /\ UNCHANGED <<k_exists, k_locked, k_cache_raises, k_session, k_op,
                   attempt, k_slept, success, k_result>>
    /\ UNCHANGED notClear

\* if not processed and faiss_index is None and not clear_requested
AutoLoadDue ==
    /\ k_pc = "rerun"
    /\ ~k_session.processed
    /\ k_session.faiss_index = "None"
    /\ ~k_session.clear_requested

\* load_existing_faiss(): check_existing_faiss() finds index.faiss and
\* load_faiss_index() returns the index and its lists, which the session
\* takes; processed = True
AutoLoadIndex ==
    /\ AutoLoadDue
    /\ k_exists
    /\ k_session' = Session(TRUE, "index", StoredMetadata, StoredContents,
                            FALSE)
    /\ k_pc' = "idle"
    /\ UNCHANGED <<k_exists, k_locked, k_cache_raises, k_op, attempt,
                   k_slept, success, k_result>>
    /\ UNCHANGED notClear

\* load_faiss_index() fails on one of the files of the directory:
\* except Exception: return None, [], []
AutoLoadFails ==
    /\ AutoLoadDue
    /\ k_exists
    /\ k_pc' = "idle"
    /\ UNCHANGED <<k_exists, k_locked, k_cache_raises, k_session, k_op,
                   attempt, k_slept, success, k_result>>
    /\ UNCHANGED notClear

\* check_existing_faiss() is false: return None, [], []
AutoLoadMissing ==
    /\ AutoLoadDue
    /\ ~k_exists
    /\ k_pc' = "idle"
    /\ UNCHANGED <<k_exists, k_locked, k_cache_raises, k_session, k_op,
                   attempt, k_slept, success, k_result>>
    /\ UNCHANGED notClear

\* force_delete_directory(path): no statement of the repository calls it;
\* it is run here on the index directory, on its own.
CallForceDelete ==
    /\ k_pc = "idle"
    /\ k_op' = "force_delete_directory"
    /\ k_pc' = "attempt"
    /\ attempt' = 0
    /\ UNCHANGED <<k_exists, k_locked, k_cache_raises, k_session, k_slept,
                   success, k_result>>
    /\ UNCHANGED notClear

InAttemptLoop == k_pc = "attempt" /\ attempt < max_attempts

\* shutil.rmtree(path); return True
ForceDeleteRemoved ==
    /\ InAttemptLoop
    /\ k_exists
    /\ k_locked = 0
    /\ k_exists' = FALSE
    /\ k_result' = "True"
    /\ k_pc' = "done"
    /\ UNCHANGED <<k_locked, k_cache_raises, k_session, k_op, attempt,
                   k_slept, success>>
    /\ UNCHANGED notClear

\* except PermissionError: time.sleep(0.5 * (attempt + 1)); gc.collect()
ForceDeleteRetry ==
    /\ InAttemptLoop
    /\ k_exists
    /\ k_locked > 0
    /\ attempt < max_attempts - 1
    /\ k_locked' = k_locked - 1
    /\ k_slept' = Append(k_slept, attempt + 1)
    /\ attempt' = attempt + 1
    /\ UNCHANGED <<k_exists, k_cache_raises, k_session, k_op, k_pc, success,
                   k_result>>
    /\ UNCHANGED notClear

\* except PermissionError: on the last attempt, return False
ForceDeleteGiveUp ==
    /\ InAttemptLoop
    /\ k_exists
    /\ k_locked > 0
    /\ attempt = max_attempts - 1
    /\ k_locked' = k_locked - 1
    /\ k_result' = "False"
    /\ k_pc' = "done"
    /\ UNCHANGED <<k_exists, k_cache_raises, k_session, k_op, attempt,
                   k_slept, success>>
    /\ UNCHANGED notClear

\* if os.path.exists(path) is false the attempt does nothing
ForceDeleteMissing ==
    /\ InAttemptLoop
    /\ ~k_exists
    /\ attempt' = attempt + 1
    /\ UNCHANGED <<k_exists, k_locked, k_cache_raises, k_session, k_op, k_pc,
                   k_slept, success, k_result>>
    /\ UNCHANGED notClear

\* the loop ran out: return False
ForceDeleteExhausted ==
    /\ k_pc = "attempt"
    /\ attempt >= max_attempts
    /\ k_result' = "False"
    /\ k_pc' = "done"
    /\ UNCHANGED <<k_exists, k_locked, k_cache_raises, k_session, k_op,
                   attempt, k_slept, success>>
    /\ UNCHANGED notClear

InitClear ==
    /\ k_exists \in BOOLEAN
    /\ k_locked \in 0..MaxLocked
    /\ k_cache_raises \in BOOLEAN
    /\ k_session = Session(TRUE, "index", StoredMetadata, StoredContents, FALSE)
    /\ k_op = "none"
    /\ k_pc = "idle"
    /\ attempt = 0
    /\ k_slept = <<>>
    /\ success = "None"
    /\ k_result = "none"
    /\ IdleBoundary
    /\ IdleChunker
    /\ IdleRoles
    /\ IdleQuestion
    /\ IdlePairs
    /\ IdleParticipants
    /\ IdleClean
    /\ IdleExtract
    /\ IdleSearch
    /\ IdleContext
    /\ IdlePipeline

NextClear ==
    \/ RequestClear
    \/ CallClearDatabase
    \/ ClearIndexRemoved
    \/ ClearIndexFailed
    \/ ClearIndexMissing
    \/ ClearCaches
    \/ ClearCachesRaises
    \/ ResetSession
    \/ ReturnCleared
    \/ ReturnPartial
    \/ RerunAfterClear
    \/ AutoLoadIndex
    \/ AutoLoadFails
    \/ AutoLoadMissing
    \/ CallForceDelete
    \/ ForceDeleteRemoved
    \/ ForceDeleteRetry
    \/ ForceDeleteGiveUp
    \/ ForceDeleteMissing
    \/ ForceDeleteExhausted

(***************************************************************************)
(* utils/faiss_rag.py: search_faiss_index.  The index belongs to FAISS     *)
(* (IndexFlatIP): s_index holds, for every stored vector, its inner        *)
(* product with the normalized query.  index.search(query, k) returns k    *)
(* slots, best first; when the index holds fewer than k vectors the        *)
(* remaining slots carry the label -1 and the lowest score.  The order of  *)
(* vectors of equal score is FAISS's choice.  metadata and contents are    *)
(* the lists of the caller; load_faiss_index reads them from files of      *)
(* their own, so they may be shorter than the index.                       *)
(***************************************************************************)
Similarities == {1, 2}
FillerScore == 0
FillerLabel == -1

Slot(sc, idx) == [score |-> sc, idx |-> idx]

\* the positions of the stored vectors, the k best first
Rankings(k) ==
    LET n == Len(s_index)
        m == Min({k, n})
    IN  {r \in [1..m -> 1..n] :
            /\ \A a, b \in 1..m : a < b =>
                  /\ r[a] # r[b]
                  /\ s_index[r[a]] >= s_index[r[b]]
            /\ \A d \in 1..n :
                  (\A a \in 1..m : r[a] # d) =>
                      \A a \in 1..m : s_index[r[a]] >= s_index[d]}

\* scores[0] and indices[0] of index.search, zipped
SearchResult(r, k) ==
    [a \in 1..k |->
        IF a <= Len(r) THEN Slot(s_index[r[a]], r[a] - 1)
        ELSE Slot(FillerScore, FillerLabel)]

\* list[idx] of Python: a negative idx counts from the end
InRange(list, idx) == -Len(list) <= idx /\ idx < Len(list)

PyIndex(list, idx) ==
    IF idx >= 0 THEN list[idx + 1] ELSE list[Len(list) + idx + 1]

SearchHit(content, meta, sc, rank) ==
    [page_content |-> content, metadata |-> meta, score |-> sc,
     rank |-> rank]

\* scores, indices = index.search(query_embedding, top_k); results = []
CallIndexSearch ==
    /\ s_pc = "call"
    /\ top_k > 0
    /\ \E r \in Rankings(top_k) : indices' = SearchResult(r, top_k)
    /\ s_i' = 0
    /\ s_results' = <<>>
    /\ s_pc' = "loop"
    /\ UNCHANGED <<s_index, metadata, contents, top_k>>
    /\ UNCHANGED notSearch

InSlotLoop == s_pc = "loop" /\ s_i < Len(indices)

\* if idx < len(metadata) and idx < len(contents)
SlotAccepted ==
    /\ indices[s_i + 1].idx < Len(metadata)
    /\ indices[s_i + 1].idx < Len(contents)

\* results.append({"page_content": contents[idx], "metadata": metadata[idx],
\*                 "score": float(score), "rank": i + 1})
AppendResult ==
    /\ InSlotLoop
    /\ SlotAccepted
    /\ InRange(contents, indices[s_i + 1].idx)
    /\ InRange(metadata, indices[s_i + 1].idx)
    /\ s_results' =
          Append(s_results,
                 SearchHit(PyIndex(contents, indices[s_i + 1].idx),
                           PyIndex(metadata, indices[s_i + 1].idx),
                           indices[s_i + 1].score, s_i + 1))
    /\ s_i' = s_i + 1
    /\ UNCHANGED <<s_index, metadata, contents, top_k, indices, s_pc>>
    /\ UNCHANGED notSearch

\* contents[idx] or metadata[idx] raises IndexError: idx is -1 and the list
\* is empty
RaiseIndexError ==
    /\ InSlotLoop
    /\ SlotAccepted
    /\ \/ ~InRange(contents, indices[s_i + 1].idx)
       \/ ~InRange(metadata, indices[s_i + 1].idx)
    /\ s_pc' = "raised"
    /\ UNCHANGED <<s_index, metadata, contents, top_k, indices, s_i,
                   s_results>>
    /\ UNCHANGED notSearch

\* the condition is false: the slot is passed over
SkipSlot ==
    /\ InSlotLoop
    /\ ~SlotAccepted
    /\ s_i' = s_i + 1
    /\ UNCHANGED <<s_index, metadata, contents, top_k, indices, s_results,
                   s_pc>>
    /\ UNCHANGED notSearch

\* return results
ReturnResults ==
    /\ s_pc = "loop"
    /\ s_i >= Len(indices)
    /\ s_pc' = "done"
    /\ UNCHANGED <<s_index, metadata, contents, top_k, indices, s_i,
                   s_results>>
    /\ UNCHANGED notSearch

\* the content and the metadata of the document stored at position d
ContentOf(d) == <<"content", d>>
MetadataOf(d) == <<"metadata", d>>

InitSearch ==
    /\ s_index \in UNION {[1..n -> Similarities] : n \in 1..MaxDocs}
    /\ \E n \in 0..Len(s_index) : contents = [d \in 1..n |-> ContentOf(d - 1)]
    /\ \E n \in 0..Len(s_index) : metadata = [d \in 1..n |-> MetadataOf(d - 1)]
    /\ top_k \in 1..MaxTopK
    /\ indices = <<>>
    /\ s_i = 0
    /\ s_results = <<>>
    /\ s_pc = "call"
    /\ IdleBoundary
    /\ IdleChunker
    /\ IdleRoles
    /\ IdleQuestion
    /\ IdlePairs
    /\ IdleParticipants
    /\ IdleClean
    /\ IdleExtract
    /\ IdleClear
    /\ IdleContext
    /\ IdlePipeline

NextSearch ==
    \/ CallIndexSearch
    \/ AppendResult
    \/ RaiseIndexError
    \/ SkipSlot
    \/ ReturnResults

(***************************************************************************)
(* utils/parser.py: extract_question_context, called on its own.  The       *)
(* blocks are role-mapped chunks, as pair_questions_answers passes them.   *)
(***************************************************************************)
\* question_context = extract_question_context(block)
CallExtractContext ==
    /\ ~e_done
    /\ e_result' = extract_question_context(e_block)
    /\ e_done' = TRUE
    /\ UNCHANGED e_block
    /\ UNCHANGED notContext

ContextFrags ==
    {"from", " ", "Acme", "analyst", "here", "investor", "fund",
     "fund manager", "&", "a"}

ContextSamples ==
    {"Jo from Acme analyst and investor", "Hi Jo Do here with a question",
     "I run a fund at Acme & Co", "We grew 5 percent from\nlast year"}

ContextTexts == FragTexts(ContextFrags, MaxContextFrags) \cup ContextSamples

InitContext ==
    /\ e_block \in {MappedChunk("Ann", "ANN", "investor", text) :
                       text \in ContextTexts}
    /\ e_result = <<>>
    /\ e_done = FALSE
    /\ IdleBoundary
    /\ IdleChunker
    /\ IdleRoles
    /\ IdleQuestion
    /\ IdlePairs
    /\ IdleParticipants
    /\ IdleClean
    /\ IdleExtract
    /\ IdleClear
    /\ IdleSearch
    /\ IdlePipeline

NextContext == CallExtractContext

(***************************************************************************)
(* app.py: the Process handler from the extraction of the text to the      *)
(* chunking of the two sections.  It runs extract_text_from_pdf_bytes,     *)
(* cuts the text at the conference call start, splits it at the Q&A        *)
(* boundary and runs basic_speaker_chunks on each part: the actions of the *)
(* page extraction and of the chunker, in that order.                      *)
(***************************************************************************)
outsidePipeline ==
    <<boundaryVars, roleVars, questionVars, pairVars, participantVars,
      cleanVars, clearVars, searchVars, contextVars>>

\* full_text = extract_text_from_pdf_bytes(file_bytes)
RunExtraction ==
    /\ g_pc = "extract"
    /\ NextExtract

\* call_start = find_conference_call_start(full_text);
\* if call_start > 0: full_text = full_text[call_start:];
\* opening_text, qa_text = find_q_a_split(full_text);
\* basic_speaker_chunks(opening_text) is called
SplitSections ==
    /\ g_pc = "extract"
    /\ x_done
    /\ \E cs \in {find_conference_call_start(x_result)} :
          \E ft \in {IF cs > 0 THEN SliceFrom(x_result, cs) ELSE x_result} :
              \E r \in {find_q_a_split(ft)} :
                  /\ g_full_text' = ft
                  /\ g_opening_text' = r[1]
                  /\ g_qa_text' = r[2]
                  /\ c_text' = r[1]
                  /\ c_lines' = SplitLines(r[1])
    /\ g_pc' = "opening"
    /\ UNCHANGED <<opening_chunks_raw, qa_chunks_raw>>
    /\ UNCHANGED <<c_idx, cur, chunks, opened_by, c_done>>
    /\ UNCHANGED <<extractVars, outsidePipeline>>

\* the loop and the return of basic_speaker_chunks, on either section
RunChunker ==
    /\ g_pc \in {"opening", "qa"}
    /\ NextChunker

\* opening_chunks_raw = ...; basic_speaker_chunks(qa_text) is called
StoreOpeningChunks ==
    /\ g_pc = "opening"
    /\ c_done
    /\ opening_chunks_raw' = chunks
    /\ c_text' = g_qa_text
    /\ c_lines' = SplitLines(g_qa_text)
    /\ c_idx' = 0
    /\ cur' = <<>>
    /\ chunks' = <<>>
    /\ opened_by' = <<>>
    /\ c_done' = FALSE
    /\ g_pc' = "qa"
    /\ UNCHANGED <<g_full_text, g_opening_text, g_qa_text, qa_chunks_raw>>
    /\ UNCHANGED <<extractVars, outsidePipeline>>

\* qa_chunks_raw = ...
StoreQAChunks ==
    /\ g_pc = "qa"
    /\ c_done
    /\ qa_chunks_raw' = chunks
    /\ g_pc' = "done"
    /\ UNCHANGED <<g_full_text, g_opening_text, g_qa_text, opening_chunks_raw>>
    /\ UNCHANGED <<chunkVars, extractVars, outsidePipeline>>

\* Pages of a transcript: two speaker turns on two lines, a turn after a
\* Q&A heading, a line without a label, lines for the other branches of the
\* chunker, and pages without text.
PipelinePages ==
    {Page("text", "AB C: hi\nJO D: yo"), Page("text", "Q&A\nEF G: why?"),
     Page("text", "some text"), Page("text", "AB CD Ef"),
     Page("text", "AB:"), Page("none", ""), Page("raises", "")}

InitPipeline ==
    /\ g_pc = "extract"
    /\ g_full_text = ""
    /\ g_opening_text = ""
    /\ g_qa_text = ""
    /\ opening_chunks_raw = <<>>
    /\ qa_chunks_raw = <<>>
    /\ x_pages \in UNION {[1..k -> PipelinePages] : k \in 0..MaxPipelinePages}
    /\ x_limit = NoLimit
    /\ x_idx = 0
    /\ page_texts = <<>>
    /\ x_result = ""
    /\ x_done = FALSE
    /\ IdleBoundary
    /\ IdleChunker
    /\ IdleRoles
    /\ IdleQuestion
    /\ IdlePairs
    /\ IdleParticipants
    /\ IdleClean
    /\ IdleClear
    /\ IdleSearch
    /\ IdleContext

NextPipeline ==
    \/ RunExtraction
    \/ SplitSections
    \/ RunChunker
    \/ StoreOpeningChunks
    \/ StoreQAChunks

(***************************************************************************)
(* Specifications: one per component.                                      *)
(***************************************************************************)
SpecBoundary == InitBoundary /\ [][NextBoundary]_vars

SpecChunker == InitChunker /\ [][NextChunker]_vars

SpecRoles == InitRoles /\ [][NextRoles]_vars

SpecQuestion == InitQuestion /\ [][NextQuestion]_vars

SpecPairs == InitPairs /\ [][NextPairs]_vars

\* The loops of pair_questions_answers run without interruption.
FairSpecPairs == SpecPairs /\ WF_vars(NextPairs)

SpecParticipants == InitParticipants /\ [][NextParticipants]_vars

SpecClean == InitClean /\ [][NextClean]_vars

SpecExtract == InitExtract /\ [][NextExtract]_vars

SpecClear == InitClear /\ [][NextClear]_vars

SpecSearch == InitSearch /\ [][NextSearch]_vars

SpecContext == InitContext /\ [][NextContext]_vars

SpecPipeline == InitPipeline /\ [][NextPipeline]_vars

(***************************************************************************)
(* Properties of the boundary detector.                                    *)
(***************************************************************************)
\* The 0-based offsets at which the pattern p matches in s.
Offsets(p, s) ==
    LET at(ls) == {j - 1 : j \in {i \in 1..Len(ls) : PatternAt(p, ls, i)}}
    IN  UNION {at(ls) : ls \in {ToLower(s)}}

\* For every pattern of the list, in list order, its offsets in s.
AllOffsets(patterns, s) == [n \in 1..Len(patterns) |-> Offsets(patterns[n], s)]

AnyOccurs(patterns, s) ==
    \E ls \in {ToLower(s)} :
        \E n \in 1..Len(patterns) :
            \E i \in 1..Len(ls) : PatternAt(patterns[n], ls, i)

\* Some pattern of the list matches s at the 0-based offset k.
MatchesAt(patterns, s, k) ==
    \E ls \in {ToLower(s)} :
        \E n \in 1..Len(patterns) : PatternAt(patterns[n], ls, k + 1)

\* The first occurrence of the first pattern, in list order, that occurs in
\* s, given all the offsets off; and whether a pattern listed after that one
\* occurs at a smaller offset than k.
WinnerOffset(off) ==
    Min(off[Min({n \in DOMAIN off : off[n] # {}})])

LaterListedEarlier(off, k) ==
    \E n \in DOMAIN off :
        /\ n > Min({m \in DOMAIN off : off[m] # {}})
        /\ \E o \in off[n] : o < k

\* C1: when some Q&A pattern matches, find_q_a_split returns text[:k] and
\* text[k:] for an offset k at which a Q&A pattern matches, so that
\* opening + qa is the text exactly.
C1_SplitLossless ==
    (split_done /\ AnyOccurs(QA_PATTERNS, b_text)) =>
        /\ opening_text \o qa_text = b_text
        /\ opening_text = SliceTo(b_text, Len(opening_text))
        /\ qa_text = SliceFrom(b_text, Len(opening_text))
        /\ MatchesAt(QA_PATTERNS, b_text, Len(opening_text))

\* A split strictly inside the text: both parts are non-empty.
C1_Witness ==
    /\ split_done
    /\ AnyOccurs(QA_PATTERNS, b_text)
    /\ opening_text # ""
    /\ qa_text # ""
    /\ qa_text # b_text

\* C2: both boundary functions use the first pattern of their list, in list
\* order, that occurs anywhere in the text, at its first occurrence, also
\* when a pattern listed later occurs at a smaller offset.
C2_ListOrderWins ==
    /\ split_done =>
          \A off \in {AllOffsets(QA_PATTERNS, b_text)} :
              (\E n \in DOMAIN off : off[n] # {}) =>
                  Len(opening_text) = WinnerOffset(off)
    /\ call_start # NotCalled =>
          \A off \in {AllOffsets(CALL_START_PATTERNS, b_text)} :
              (\E n \in DOMAIN off : off[n] # {}) =>
                  call_start = WinnerOffset(off)

\* Both functions have returned on a text where, for each list, a pattern
\* listed after the winner occurs before the returned offset.
C2_Witness ==
    /\ split_done
    /\ call_start # NotCalled
    /\ \E off \in {AllOffsets(QA_PATTERNS, b_text)} :
          /\ \E n \in DOMAIN off : off[n] # {}
          /\ LaterListedEarlier(off, Len(opening_text))
    /\ \E off \in {AllOffsets(CALL_START_PATTERNS, b_text)} :
          /\ \E n \in DOMAIN off : off[n] # {}
          /\ LaterListedEarlier(off, call_start)

\* C3: on a text that contains no boundary pattern, the call start is 0 and
\* the split is (text, ""): the whole text is opening remarks, the Q&A text
\* is empty, and both calls return a value.
C3_NoPatternDefaults ==
    /\ (call_start # NotCalled /\ ~AnyOccurs(CALL_START_PATTERNS, b_text)) =>
          call_start = 0
    /\ (split_done /\ ~AnyOccurs(QA_PATTERNS, b_text)) =>
          (opening_text = b_text /\ qa_text = "")

\* A non-empty text without any boundary pattern, after both calls.
C3_Witness ==
    /\ split_done
    /\ call_start = 0
    /\ b_text # ""
    /\ ~AnyOccurs(CALL_START_PATTERNS, b_text)
    /\ ~AnyOccurs(QA_PATTERNS, b_text)
    /\ opening_text = b_text

(***************************************************************************)
(* Properties of the speaker chunker.                                      *)
(***************************************************************************)
\* The chunks of the output so far: the closed ones and the open one.
AllChunks == IF c_done THEN chunks ELSE chunks \o cur

\* The non-blank lines of the input, stripped, in order.
NonBlankLines ==
    LET keep(l) == Strip(l) # ""
        nb == SelectSeq(c_lines, keep)
    IN  [i \in 1..Len(nb) |-> Strip(nb[i])]

\* A label as the speaker patterns define it: 3 to 61 characters, a first
\* letter (upper case, or any case when relaxed) and then letters of that
\* case, digits, spaces, periods or hyphens.
IsLabelText(l, relaxed) ==
    /\ Len(l) \in 3..61
    /\ IsUpper(Ch(l, 1)) \/ (relaxed /\ IsLower(Ch(l, 1)))
    /\ \A i \in 2..Len(l) :
          \/ IsUpper(Ch(l, i)) \/ (relaxed /\ IsLower(Ch(l, i)))
          \/ IsDigit(Ch(l, i)) \/ Ch(l, i) \in {" ", ".", "-"}

\* The places k at which t reads label (k characters), separator, message.
Decompositions(t, relaxed) ==
    {k \in 3..(Len(t) - 2) :
        /\ IsLabelText(SubSeq(t, 1, k), relaxed)
        /\ Ch(t, k + 1) \in {":", "-", EmDash}
        /\ Strip(SubSeq(t, k + 2, Len(t))) # ""}

LabelOf(t, k) == Strip(SubSeq(t, 1, k))
MessageOf(t, k) == Strip(SubSeq(t, k + 2, Len(t)))

\* s occurs in t as a run of consecutive characters.
IsSubstring(s, t) ==
    \E i \in 1..(Len(t) - Len(s) + 1) : SubSeq(t, i, i + Len(s) - 1) = s

RECURSIVE Without(_, _)
Without(s, c) ==
    IF s = "" THEN ""
    ELSE IF Head(s) = c THEN Without(Tail(s), c)
    ELSE Head(s) \o Without(Tail(s), c)

RECURSIVE TextsOf(_)
TextsOf(chs) == IF chs = <<>> THEN "" ELSE Head(chs).text \o TextsOf(Tail(chs))

\* C4: every chunk has a non-empty text; its speaker_raw is a label detected
\* in a line of the input, or the sentinel; the sentinel is assigned only
\* while no chunk has been opened, so only the first chunk can carry it.
C4_ChunksWellFormed ==
    /\ Len(opened_by) = Len(AllChunks)
    /\ \A i \in 1..Len(AllChunks) :
          /\ AllChunks[i].text # ""
          /\ opened_by[i] = "sentinel" =>
                (i = 1 /\ AllChunks[i].speaker_raw = UNKNOWN)
          /\ opened_by[i] # "sentinel" =>
                \E n \in 1..Len(c_lines) :
                    \E ls \in {Strip(c_lines[n])} :
                        \E k \in 3..Len(ls) :
                            /\ IsLabelText(SubSeq(ls, 1, k), TRUE)
                            /\ AllChunks[i].speaker_raw = LabelOf(ls, k)

\* The output holds a sentinel chunk followed by a chunk with a detected
\* label.
C4_Witness ==
    /\ c_done
    /\ Len(chunks) >= 2
    /\ opened_by[1] = "sentinel"
    /\ opened_by[2] = "label"
    /\ chunks[1].speaker_raw = UNKNOWN
    /\ chunks[2].speaker_raw # UNKNOWN

\* C5 as stated: every non-blank line of the input occurs in the
\* concatenation of the chunks' texts, separators removed.
C5_TextsHoldEveryLine ==
    c_done =>
        \A i \in 1..Len(NonBlankLines) :
            IsSubstring(NonBlankLines[i], Without(TextsOf(chunks), "\n"))

\* The lines of the output, in order: for every chunk the line that opened
\* it (its speaker and the first line of its text), then the lines appended.
RECURSIVE OutputLines(_)
OutputLines(chs) ==
    IF chs = <<>> THEN <<>>
    ELSE LET segs == SplitLines(Head(chs).text)
         IN  <<[opens |-> TRUE, speaker |-> Head(chs).speaker_raw,
                text |-> segs[1]]>>
             \o [i \in 1..(Len(segs) - 1) |->
                   [opens |-> FALSE, speaker |-> "", text |-> segs[i + 1]]]
             \o OutputLines(Tail(chs))

\* The line l is kept by the opening line o: whole as the text of a sentinel
\* chunk, or as speaker and message with only one separator character and
\* the whitespace around them dropped.
KeptAsOpening(l, o) ==
    \/ o.speaker = UNKNOWN /\ o.text = l
    \/ \E k \in 1..Len(l) :
          /\ Strip(SubSeq(l, 1, k)) = o.speaker
          /\ \/ LStrip(SubSeq(l, k + 1, Len(l))) = o.text
             \/ /\ Ch(l, k + 1) \in {":", "-", EmDash}
                /\ LStrip(SubSeq(l, k + 2, Len(l))) = o.text

\* C5 (amended): every non-blank line of the input is kept, in order: a line
\* without a detected speaker label is a line of a chunk's text; a line with
\* one gives the chunk's speaker_raw and the first line of its text, and
\* only the separator and the whitespace around label and message are
\* dropped from it.
C5_LinesKept ==
    c_done =>
        \E out \in {OutputLines(chunks)} :
            /\ Len(out) = Len(NonBlankLines)
            /\ \A i \in 1..Len(out) :
                  IF out[i].opens
                  THEN KeptAsOpening(NonBlankLines[i], out[i])
                  ELSE out[i].text = NonBlankLines[i]

\* A labelled line, a line appended to its chunk, and a second labelled
\* line.
C5_Witness ==
    /\ c_done
    /\ Len(chunks) = 2
    /\ Len(NonBlankLines) = 3
    /\ opened_by = <<"label", "label">>
    /\ IsSubstring("\n", chunks[1].text)

\* C6 as stated: for every single line that reads label, separator, message,
\* the output is one chunk with that label and that message.
C6_EveryLabelIsSpeaker ==
    (c_done /\ c_lines = <<c_text>>) =>
        \A k \in Decompositions(c_text, FALSE) :
            chunks = <<Chunk(LabelOf(c_text, k), MessageOf(c_text, k))>>

\* C6 (amended): for every single line that reads label, separator, message
\* (the message not only whitespace), the output is exactly one chunk; its
\* speaker_raw is the longest label the line can be read with and its text
\* the message after that label's separator, both stripped.  That is the
\* label and the message of every reading whose separator is ':' or the
\* em-dash, or whose message holds no separator character.
C6_LongestLabelIsSpeaker ==
    (c_done /\ c_lines = <<c_text>>) =>
        \A ks \in {Decompositions(c_text, FALSE)} :
            ks # {} =>
                /\ chunks = <<Chunk(LabelOf(c_text, Max(ks)),
                                    MessageOf(c_text, Max(ks)))>>
                /\ \A k \in ks :
                      (\/ Ch(c_text, k + 1) \in {":", EmDash}
                       \/ \A i \in (k + 2)..Len(c_text) :
                             Ch(c_text, i) \notin {":", "-", EmDash})
                      => k = Max(ks)

\* A line with a label that holds a hyphen, the separator ':' and a message
\* after whitespace.
C6_Witness ==
    /\ c_done
    /\ c_lines = <<c_text>>
    /\ \E k \in Decompositions(c_text, FALSE) :
          /\ Ch(c_text, k + 1) = ":"
          /\ IsSubstring("-", SubSeq(c_text, 1, k))
          /\ Ch(c_text, k + 2) = " "
          /\ chunks = <<Chunk(SubSeq(c_text, 1, k), MessageOf(c_text, k))>>

\* No line of the input reads label, separator, message.
NoLabelLines ==
    \A i \in 1..Len(NonBlankLines) :
        Decompositions(NonBlankLines[i], TRUE) = {}

\* C7 as stated: without a speaker-label line the output is empty, or one
\* UNKNOWN chunk whose text holds every non-blank line.
C7_NoLabelOneUnknown ==
    (c_done /\ NoLabelLines) =>
        IF NonBlankLines = <<>> THEN chunks = <<>>
        ELSE /\ Len(chunks) = 1
             /\ chunks[1].speaker_raw = UNKNOWN
             /\ \A i \in 1..Len(NonBlankLines) :
                   \E n \in 1..Len(SplitLines(chunks[1].text)) :
                       SplitLines(chunks[1].text)[n] = NonBlankLines[i]

\* The readings of l as an upper-case label, whitespace, and a remainder of
\* at least two characters that starts with a capital letter.
SpacedReadings(l) ==
    {k \in 3..(Len(l) - 3) :
        /\ IsLabelText(SubSeq(l, 1, k), FALSE)
        /\ IsSpace(Ch(l, k + 1))
        /\ \E r \in {LStrip(SubSeq(l, k + 1, Len(l)))} :
              Len(r) >= 2 /\ IsUpper(Ch(r, 1))}

\* C7 (amended): without a speaker-label line the output is empty when the
\* text has no non-blank line, and otherwise exactly one chunk that holds
\* every non-blank line in order.  Its speaker_raw is UNKNOWN and its text
\* all the lines, unless the first non-blank line reads upper-case label,
\* whitespace, capital letter and more: then speaker_raw is the longest such
\* label and the text starts after it.
C7_NoLabelOneChunk ==
    (c_done /\ NoLabelLines) =>
        IF NonBlankLines = <<>> THEN chunks = <<>>
        ELSE \E first \in {NonBlankLines[1]} :
             \E ks \in {SpacedReadings(first)} :
                /\ Len(chunks) = 1
                /\ ks = {} =>
                      chunks[1] = Chunk(UNKNOWN, JoinLines(NonBlankLines))
                /\ ks # {} =>
                      chunks[1] =
                        Chunk(LabelOf(first, Max(ks)),
                              JoinLines(<<Strip(SubSeq(first, Max(ks) + 1,
                                                       Len(first)))>>
                                        \o Tail(NonBlankLines)))

\* Two non-blank lines without a speaker label, the first recovered as a
\* speaker line.
C7_Witness ==
    /\ c_done
    /\ NoLabelLines
    /\ Len(NonBlankLines) = 2
    /\ opened_by = <<"recovered">>
    /\ Len(chunks) = 1
    /\ chunks[1].speaker_raw # UNKNOWN

(***************************************************************************)
(* Properties of the role mapper.                                          *)
(***************************************************************************)
\* The highest score of the label raw against the participant list.
BestScore(raw) ==
    Max({score[<<raw, participant_list[j]>>] : j \in 1..Len(participant_list)})

\* C8: every mapped chunk has its role and name by the decision: a raw
\* label that is OPERATOR or MODERATOR once trimmed and upper-cased gives
\* moderator and the raw label; otherwise a non-empty participant list
\* whose best score is above 75 gives management and a participant with
\* that best score; otherwise (best score at most 75, or empty list) the
\* chunk is an investor's and keeps the raw label as name.
C8_RoleDecision ==
    \A i \in 1..Len(mapped) :
        \E raw \in {r_chunks[i].speaker_raw} :
            IF ToUpper(Strip(raw)) \in {"OPERATOR", "MODERATOR"}
            THEN /\ mapped[i].role = "moderator"
                 /\ mapped[i].speaker_name = raw
            ELSE IF participant_list # <<>> /\ BestScore(raw) > 75
            THEN /\ mapped[i].role = "management"
                 /\ \E j \in 1..Len(participant_list) :
                       /\ mapped[i].speaker_name = participant_list[j]
                       /\ score[<<raw, participant_list[j]>>] = BestScore(raw)
            ELSE /\ mapped[i].role = "investor"
                 /\ mapped[i].speaker_name = raw

\* A call has mapped one chunk whose best score is exactly 75 to an
\* investor and one whose best score is 76 to a manager, with a roster of
\* two names.
C8_Witness ==
    /\ r_pc = "idle"
    /\ Len(results) = 1
    /\ Len(participant_list) = 2
    /\ Len(mapped) = 2
    /\ mapped[1].role = "investor"
    /\ BestScore(r_chunks[1].speaker_raw) = 75
    /\ mapped[2].role = "management"
    /\ BestScore(r_chunks[2].speaker_raw) = 76

\* C9: every call on the same chunks and participant list returns the same
\* list; the list has the length and order of the chunks, with speaker_raw
\* and text copied; the chunks and the participant list are, at every
\* point of every call, what they were when handed over.
C9_Repeatable ==
    /\ r_chunks = r_chunks0
    /\ participant_list = participant_list0
    /\ \A c \in 1..Len(results) :
          /\ results[c] = results[1]
          /\ Len(results[c]) = Len(r_chunks0)
          /\ \A i \in 1..Len(r_chunks0) :
                /\ results[c][i].speaker_raw = r_chunks0[i].speaker_raw
                /\ results[c][i].text = r_chunks0[i].text

\* Two calls have returned, on two chunks of which one was matched to a
\* participant.
C9_Witness ==
    /\ r_pc = "idle"
    /\ Len(results) >= 2
    /\ Len(r_chunks0) = 2
    /\ \E i \in 1..2 : results[2][i].role = "management"
    /\ results[2][1].text # results[2][2].text

(***************************************************************************)
(* Properties of the question detector.                                    *)
(***************************************************************************)
\* C10: is_question_block returns true for every block whose role is
\* investor, whatever its text.
C10_InvestorIsQuestion ==
    (q_done /\ q_block.role = "investor") => q_result = TRUE

\* An investor's block whose text has no '?' and no question keyword, and
\* which a block of another role would not pass with.
C10_Witness ==
    /\ q_done
    /\ q_block.role = "investor"
    /\ q_block.text \in {"", " ", "\n \n"}
    /\ q_result = TRUE

\* Some pattern of the list matches the text.
MatchesAny(patterns, text) ==
    \E ls \in {ToLower(text)} :
        \E n \in 1..Len(patterns) : SearchFrom(patterns[n], ls, 1) # NoMatch

\* The patterns of question_patterns that are no indicators: the word
\* analyst, and first, next or follow-up before question or one.
ExtraQuestionPatterns == <<
    Word("analyst"),
    WordPair("first", "question"), WordPair("first", "one"),
    WordPair("next", "question"), WordPair("next", "one"),
    WordPair("follow-up", "question"), WordPair("follow-up", "one") >>

\* C11 as stated: is_question_block is true exactly when the text matches
\* one of the indicators or the role is investor.
C11_ExactlyIndicatorsOrInvestor ==
    q_done =>
        (q_result = (\/ MatchesAny(QUESTION_INDICATORS, q_block.text)
                     \/ q_block.role = "investor"))

\* C11 (amended): is_question_block is true exactly when the text matches
\* one of the indicators, or the role is investor, or the text holds the
\* word analyst or one of first, next, follow-up followed by whitespace and
\* question or one; a management or moderator block whose text matches none
\* of these is not a question.
C11_ExactlyIndicatorsInvestorOrExtra ==
    q_done =>
        (q_result = (\/ MatchesAny(QUESTION_INDICATORS, q_block.text)
                     \/ q_block.role = "investor"
                     \/ MatchesAny(ExtraQuestionPatterns, q_block.text)))

\* A management block that matches no indicator and is a question by the
\* words "next one".
C11_Witness ==
    /\ q_done
    /\ q_block.role = "management"
    /\ ~MatchesAny(QUESTION_INDICATORS, q_block.text)
    /\ MatchesAny(<<WordPair("next", "one")>>, q_block.text)
    /\ q_result = TRUE

(***************************************************************************)
(* Properties of the Q&A pairing.                                          *)
(***************************************************************************)
\* A question chunk, two management chunks that are no questions, and a
\* moderator chunk whose text contains "next question".
QuestionTwoAnswersModerator ==
    /\ Len(q_chunks) = 4
    /\ is_question_block(q_chunks[1])
    /\ \A n \in 2..3 :
          /\ q_chunks[n].role = "management"
          /\ ~is_question_block(q_chunks[n])
    /\ q_chunks[4].role = "moderator"
    /\ Contains(q_chunks[4].text, "next question")

\* C12 as stated: on such a list the result is exactly one pair, whose
\* answers are the two management chunks; the moderator chunk is the
\* question of no pair.
C12_ModeratorEndsThePair ==
    (p_pc = "done" /\ QuestionTwoAnswersModerator) =>
        /\ Len(pairs) = 1
        /\ pairs[1].answers = <<q_chunks[2], q_chunks[3]>>

\* C13: every pair returned has a question that is_question_block accepts,
\* taken from the input; its answers are the chunks that follow that
\* question in the input, contiguously and in order, none of them accepted
\* by is_question_block; question_speaker is the question's speaker_name
\* and answer_speakers the answers' speaker_name values, in order.
C13_PairsWellFormed ==
    p_pc = "done" =>
        \A k \in 1..Len(pairs) :
            \E pr \in {pairs[k]} :
                /\ is_question_block(pr.question)
                /\ \E i \in 1..Len(q_chunks) :
                      /\ q_chunks[i] = pr.question
                      /\ i + Len(pr.answers) <= Len(q_chunks)
                      /\ pr.answers =
                            SubSeq(q_chunks, i + 1, i + Len(pr.answers))
                /\ \A a \in 1..Len(pr.answers) :
                      ~is_question_block(pr.answers[a])
                /\ pr.question_speaker = pr.question.speaker_name
                /\ Len(pr.answer_speakers) = Len(pr.answers)
                /\ \A a \in 1..Len(pr.answers) :
                      pr.answer_speakers[a] = pr.answers[a].speaker_name

\* Two pairs, the first with two answers of different speakers, the second
\* with none.
C13_Witness ==
    /\ p_pc = "done"
    /\ Len(pairs) = 2
    /\ Len(pairs[1].answers) = 2
    /\ pairs[1].answer_speakers[1] # pairs[1].answer_speakers[2]
    /\ pairs[2].answers = <<>>

(***************************************************************************)
(* Properties of the participant scan.                                     *)
(***************************************************************************)
\* The stripped lines of the text, in order.
StrippedLines(text) ==
    LET ls == SplitOn(text, "\n") IN [i \in 1..Len(ls) |-> Strip(ls[i])]

\* The non-blank lines in which some vocabulary title stands as a word.
TitledLines(text) ==
    LET titled(l) == l # "" /\ MatchesAny(TitlePatterns, l)
    IN  SelectSeq(StrippedLines(text), titled)

\* Those of them that do not start with a comma.
NamedTitledLines(text) ==
    LET named(l) == Ch(l, 1) # ","
    IN  SelectSeq(TitledLines(text), named)

\* The part of the line before its first comma, stripped.
BeforeComma(l) == Strip(SubSeq(l, 1, PrefixWithout(l, ",", 0)))

\* The first title of the vocabulary that stands in the line as a word.
FirstTitle(l) ==
    TITLES[Min({n \in 1..Len(TITLES) : MatchesAny(<<TitlePatterns[n]>>, l)})]

\* The participants are, in order, one for every line of the sequence.
OnePerLine(ls) ==
    /\ Len(participants) = Len(ls)
    /\ \A k \in 1..Len(ls) :
          participants[k] =
              Participant(BeforeComma(ls[k]), FirstTitle(ls[k]), ls[k])

\* C14 as stated: the result holds, in order, exactly one Participant for
\* every non-blank line that matches a vocabulary title.
C14_OnePerTitledLine ==
    t_done => \E ls \in {TitledLines(t_text)} : OnePerLine(ls)

\* C14 (amended): the result holds, in order, exactly one Participant for
\* every non-blank line that matches a vocabulary title and does not start
\* with a comma, and none for any other line; name is the part of the line
\* before its first comma (stripped), title the first matching title in
\* vocabulary order, full_line the stripped line.
C14_OnePerNamedTitledLine ==
    t_done => \E ls \in {NamedTitledLines(t_text)} : OnePerLine(ls)

\* A line with a name, a comma and "Vice President", recorded with the
\* title "President", which stands earlier in the vocabulary.
C14_Witness ==
    /\ t_done
    /\ Len(participants) = 1
    /\ participants[1].name = "Jo Do"
    /\ participants[1].title = "President"
    /\ participants[1].full_line # "Jo Do"

(***************************************************************************)
(* Properties of the text normalizer.                                      *)
(***************************************************************************)
\* ^\s*\d+\s*$ : the line holds digits, and whitespace around them, only.
IsPageNumberLine(l) ==
    /\ Strip(l) # ""
    /\ \A i \in 1..Len(Strip(l)) : IsDigit(Ch(Strip(l), i))

\* The text without its page-number lines.
WithoutPageNumberLines(text) ==
    LET keep(l) == ~IsPageNumberLine(l)
    IN  JoinLines(SelectSeq(SplitOn(text, "\n"), keep))

\* C15 as stated: the page-number lines of the input are absent from the
\* output, that is, the output is what it would be had the input not held
\* them, also when such a line stands between other lines.
C15_PageNumberLinesRemoved ==
    n_done => n_result = clean_text(WithoutPageNumberLines(n_text))

\* A page-number line between two lines of text whose digits are still in
\* the output.
C15_PageNumberKept ==
    /\ n_done
    /\ n_text = "Hello\n12\nHello"
    /\ n_result = "Hello 12 Hello"

(***************************************************************************)
(* Properties of the page extraction.                                      *)
(***************************************************************************)
\* The cleaned texts of the pages that do not raise, in page order.
RECURSIVE CleanedOf(_)
CleanedOf(pages) ==
    IF pages = <<>> THEN <<>>
    ELSE (IF Head(pages).outcome = "raises" THEN <<>>
          ELSE <<clean_text(Head(pages).text)>>)
         \o CleanedOf(Tail(pages))

\* C16: whichever pages raise, the function returns, and returns the
\* newline-join, in page order, of the cleaned texts of exactly the pages
\* that do not raise, among the first n pages for the first-pages variant.
C16_FailedPagesSkipped ==
    x_done =>
        x_result =
            JoinLines(CleanedOf(
                IF x_limit = NoLimit THEN x_pages
                ELSE [i \in 1..Min({x_limit, Len(x_pages)}) |-> x_pages[i]]))

\* The first-pages variant with n = 2 on three pages, of which the first
\* raises: the result is the cleaned text of the second page alone.
C16_Witness ==
    /\ x_done
    /\ x_limit = 2
    /\ Len(x_pages) = 3
    /\ x_pages[1].outcome = "raises"
    /\ x_pages[2] = Page("text", " AB  - x\n12 ")
    /\ x_pages[3].outcome = "text"
    /\ x_result = "AB : x 12"

(***************************************************************************)
(* Properties of index clearing.                                           *)
(***************************************************************************)
ClearReturned == k_op = "clear_database" /\ k_pc = "done"

\* C17: when removing the index directory fails on a lock, clear_database
\* has retried up to the attempt cap, sleeping longer before every retry,
\* before it reports "partial"; and it reports True only when the directory
\* is gone.
C17_BusyIsRetried ==
    ClearReturned =>
        /\ k_result = "True" => ~k_exists
        /\ k_result = "partial" /\ k_exists =>
              /\ attempt = max_attempts
              /\ \A n \in 1..(max_attempts - 1) :
                    /\ n <= Len(k_slept)
                    /\ n > 1 => k_slept[n] > k_slept[n - 1]

\* clear_database reports "partial" after a single attempt although the lock
\* was released by then: the directory is still there and free.
C17_GaveUpAfterOneAttempt ==
    /\ ClearReturned
    /\ k_result = "partial"
    /\ k_exists
    /\ k_locked = 0
    /\ attempt = 1

\* C25: once clear_database has run to its end on a Clear Database request,
\* whatever the removal of the files came to (True or "partial"), the session
\* holds no transcript (processed = False, faiss_index = None, no metadata,
\* no contents, clear_requested = False), and it still does after the rerun.
C25_SessionStaysCleared ==
    (/\ k_op = "clear_database"
     /\ k_pc \in {"done", "rerun", "idle"}
     /\ k_result \in {"True", "partial"})
        => k_session = Session(FALSE, "None", <<>>, <<>>, FALSE)

\* After a "partial" clear the files are still there, and the rerun has
\* loaded them: the session holds the transcript that was cleared.
C25_ClearedTranscriptIsBack ==
    /\ k_op = "clear_database"
    /\ k_pc = "idle"
    /\ k_result = "partial"
    /\ k_exists
    /\ k_session = Session(TRUE, "index", StoredMetadata, StoredContents,
                           FALSE)

(***************************************************************************)
(* Properties of the index search.                                         *)
(***************************************************************************)
\* C18: search_faiss_index returns at most top_k results, highest score
\* first, the rank of a result being its position in the list; every result
\* holds the content and the metadata of the document stored at the position
\* its slot reported, and a slot with the label -1 yields no result.
C18_ResultsAreStoredDocuments ==
    s_pc = "done" =>
        /\ Len(s_results) <= top_k
        /\ \A n \in 1..Len(s_results) :
              /\ s_results[n].rank = n
              /\ n > 1 => s_results[n - 1].score >= s_results[n].score
              /\ \E a \in 1..Len(indices) :
                    /\ indices[a].idx # FillerLabel
                    /\ indices[a].idx + 1 \in 1..Len(s_index)
                    /\ s_results[n].score = indices[a].score
                    /\ s_results[n].page_content = ContentOf(indices[a].idx)
                    /\ s_results[n].metadata = MetadataOf(indices[a].idx)
        /\ Len(s_results) <=
              Cardinality({a \in 1..Len(indices) :
                              indices[a].idx # FillerLabel})

\* An index of one document, with its content and metadata, searched with
\* top_k = 2: the unused second slot yields a second result, which is the
\* last document of the lists again.
C18_FillerSlotYieldsResult ==
    /\ s_pc = "done"
    /\ Len(s_index) = 1
    /\ Len(contents) = 1
    /\ Len(metadata) = 1
    /\ top_k = 2
    /\ indices[2].idx = FillerLabel
    /\ Len(s_results) = 2
    /\ s_results[2] = SearchHit(ContentOf(0), MetadataOf(0), FillerScore, 2)

(***************************************************************************)
(* Properties of the chunker as a line state machine.                      *)
(***************************************************************************)
\* A line that reads label, separator, message for the primary or the
\* relaxed pattern.
IsLabelLine(t) == Decompositions(t, TRUE) # {}

\* The non-blank lines at which a chunk starts: the label lines, and the
\* first line whatever it is.
ChunkStarts ==
    {i \in 1..Len(NonBlankLines) : i = 1 \/ IsLabelLine(NonBlankLines[i])}

\* The n-th of them, and the line after the last line of its chunk.
StartOf(n) ==
    CHOOSE s \in ChunkStarts : Cardinality({u \in ChunkStarts : u < s}) = n - 1

EndOf(n) ==
    IF n < Cardinality(ChunkStarts) THEN StartOf(n + 1)
    ELSE Len(NonBlankLines) + 1

\* The output is one chunk per start, in input order; a chunk started by a
\* label line carries a label and the message of that line, and every chunk
\* carries the lines up to the next start.
OneChunkPerStart ==
    /\ Len(chunks) = Cardinality(ChunkStarts)
    /\ \A n \in 1..Len(chunks) :
          \E s \in {StartOf(n)}, e \in {EndOf(n)},
             segs \in {SplitLines(chunks[n].text)} :
              /\ Len(segs) = e - s
              /\ \A j \in 2..Len(segs) : segs[j] = NonBlankLines[s + j - 1]
              /\ IsLabelLine(NonBlankLines[s]) =>
                    \E k \in Decompositions(NonBlankLines[s], TRUE) :
                        /\ chunks[n].speaker_raw = LabelOf(NonBlankLines[s], k)
                        /\ segs[1] = MessageOf(NonBlankLines[s], k)

\* A step that opens a chunk closes the open one, and no step changes a
\* closed chunk.
ClosedChunksKept ==
    /\ Len(chunks') >= Len(chunks)
    /\ \A n \in 1..Len(chunks) : chunks'[n] = chunks[n]
    /\ Len(opened_by') > Len(opened_by) => chunks' = chunks \o cur
    /\ c_done' /\ ~c_done => chunks' = chunks \o cur

\* C19: the output of basic_speaker_chunks holds, in input order, one chunk
\* per label-matching line, preceded by one extra chunk when the first
\* non-blank line is not label-matching; opening a chunk closes the open
\* one, a closed chunk is never modified, and the last open chunk is emitted
\* at the end of the input.
C19_LineStateMachine ==
    /\ [](c_done => OneChunkPerStart)
    /\ [][ClosedChunksKept]_vars

\* An unlabelled first line followed by two label lines gives three chunks.
C19_Witness ==
    /\ c_done
    /\ Len(NonBlankLines) = 3
    /\ ~IsLabelLine(NonBlankLines[1])
    /\ IsLabelLine(NonBlankLines[2])
    /\ IsLabelLine(NonBlankLines[3])
    /\ Len(chunks) = 3

\* The step on a line without a label while a chunk is open, and the step
\* on a blank line.
AppendStepFrame ==
    (/\ InLoop
     /\ cur # <<>>
     /\ Strip(c_lines[c_idx + 1]) # ""
     /\ ~IsLabelLine(Strip(c_lines[c_idx + 1])))
    => /\ cur' = <<Chunk(cur[1].speaker_raw,
                         cur[1].text \o "\n" \o Strip(c_lines[c_idx + 1]))>>
       /\ chunks' = chunks
       /\ opened_by' = opened_by

BlankStepFrame ==
    (InLoop /\ Strip(c_lines[c_idx + 1]) = "")
    => /\ cur' = cur
       /\ chunks' = chunks
       /\ opened_by' = opened_by

\* C20: a non-blank line without a speaker label met while a chunk is open
\* is appended, stripped and after a newline, to the text of the open chunk;
\* no other chunk changes and none is opened.  A blank line changes no
\* chunk, opens none and closes none.
C20_AppendAndBlankFrame == [][AppendStepFrame /\ BlankStepFrame]_vars

\* A label line, a blank line and an unlabelled line have been read: one
\* open chunk holds the message and the unlabelled line.
C20_Witness ==
    /\ c_lines = <<"AB C: x y", "  ", "some text">>
    /\ c_idx = 3
    /\ cur = <<Chunk("AB C", "x y\nsome text")>>
    /\ chunks = <<>>
    /\ opened_by = <<"label">>

(***************************************************************************)
(* Properties of the scan of pair_questions_answers.                       *)
(***************************************************************************)
\* For every position of q_chunks, whether the chunk is a question and
\* whether it ends an answer run.
QuestionAt == [k \in 1..Len(q_chunks) |-> IsQuestionChunk[q_chunks[k]]]

EndsRunAt ==
    [k \in 1..Len(q_chunks) |->
        QuestionAt[k] \/ IsModeratorStop(q_chunks[k])]

\* The first position after i that ends a run, or the position after the
\* last chunk.
FirstEndAfter(i) ==
    Min({k \in (i + 1)..Len(q_chunks) : EndsRunAt[k]} \cup {Len(q_chunks) + 1})

\* The positions at which the scan, started at i, stands on a question.
RECURSIVE ScanFrom(_)
ScanFrom(i) ==
    IF i > Len(q_chunks) THEN <<>>
    ELSE IF QuestionAt[i] THEN <<i>> \o ScanFrom(FirstEndAfter(i))
    ELSE ScanFrom(i + 1)

\* C21: for every question the scan stands on at position i, answers is the
\* run of chunks from i + 1 up to, and without, the first chunk j after i
\* that is a question or a moderator chunk with "question" in its lower-cased
\* text (the whole rest of the list when there is none), and the scan goes on
\* at j.
C21_AnswersAreMaximalRun ==
    p_pc = "done" =>
        \E found \in {ScanFrom(1)} :
            /\ Len(pairs) = Len(found)
            /\ \A n \in 1..Len(found) :
                  /\ pairs[n].question = q_chunks[found[n]]
                  /\ pairs[n].answers =
                        SubSeq(q_chunks, found[n] + 1,
                               FirstEndAfter(found[n]) - 1)

\* A question, two answers of different speakers, and a moderator chunk
\* that ends the run without being a question: one pair, the moderator
\* chunk outside it.
C21_Witness ==
    /\ p_pc = "done"
    /\ Len(q_chunks) = 4
    /\ IsModeratorStop(q_chunks[4])
    /\ ~is_question_block(q_chunks[4])
    /\ Len(pairs) = 1
    /\ pairs[1].answer_speakers = <<"Bob", "Dee">>

\* The positions of the questions, in order, and the positions of the
\* answers of the n-th pair.
QuestionPositions ==
    LET isq(k) == QuestionAt[k]
    IN  SelectSeq([k \in 1..Len(q_chunks) |-> k], isq)

AnswerPositions(n) ==
    (QuestionPositions[n] + 1)..(QuestionPositions[n] + Len(pairs[n].answers))

\* The result holds one pair per question chunk, in input order; the answers
\* of a pair are the chunks after its question; a chunk that is no question
\* is an answer of at most one pair, and of none when it stands before the
\* first question or ends an answer run.
OnePairPerQuestion ==
    \E qs \in {QuestionPositions} :
        /\ Len(pairs) = Len(qs)
        /\ \A n \in 1..Len(qs) :
              /\ pairs[n].question = q_chunks[qs[n]]
              /\ qs[n] + Len(pairs[n].answers) <= Len(q_chunks)
              /\ pairs[n].answers =
                    SubSeq(q_chunks, qs[n] + 1, qs[n] + Len(pairs[n].answers))
        /\ \A k \in 1..Len(q_chunks) :
              ~QuestionAt[k] =>
                  /\ Cardinality({n \in 1..Len(qs) : k \in AnswerPositions(n)})
                        <= 1
                  /\ (qs = <<>> \/ k < qs[1] \/ EndsRunAt[k]) =>
                        \A n \in 1..Len(qs) : k \notin AnswerPositions(n)

\* C22: pair_questions_answers terminates, and returns exactly one pair per
\* chunk that is_question_block accepts, in input order, with that chunk as
\* the question; every other chunk is an answer of at most one pair; a chunk
\* that is no question and stands before the first question, or ends an
\* answer run, is in no pair.
C22_TerminatesOnePairPerQuestion ==
    /\ <>(p_pc = "done")
    /\ [](p_pc = "done" => OnePairPerQuestion)

\* A moderator chunk before the first question, a question with one answer,
\* and a moderator chunk ending the run: one pair, the two moderator chunks
\* in none.
C22_Witness ==
    /\ p_pc = "done"
    /\ Len(q_chunks) = 4
    /\ q_chunks[1].role = "moderator"
    /\ ~is_question_block(q_chunks[1])
    /\ is_question_block(q_chunks[2])
    /\ IsModeratorStop(q_chunks[4])
    /\ ~is_question_block(q_chunks[4])
    /\ Len(pairs) = 1
    /\ pairs[1].answers = <<q_chunks[3]>>

(***************************************************************************)
(* Properties of the question context.                                     *)
(***************************************************************************)
ContextText == e_block.text

AllCompanyChars(s, a, b) == \A k \in a..b : IsCompanyChar(Ch(s, k))

\* The places <<i, g>> at which s reads "from", whitespace, and two
\* characters of a company name of which the first, at g, is a letter.
FromPlaces(s) ==
    {pl \in (1..Len(s)) \X (1..(Len(s) - 1)) :
        /\ WordAt(s, pl[1], "from")
        /\ pl[2] >= pl[1] + 5
        /\ \A k \in (pl[1] + 4)..(pl[2] - 1) : IsSpace(Ch(s, k))
        /\ IsLetter(Ch(s, pl[2]))
        /\ IsCompanyChar(Ch(s, pl[2] + 1))}

\* The places <<g, a>> at which s reads a company name that starts with a
\* letter at g, one whitespace character, and the word at a.
WordPlaces(s, word) ==
    {pl \in (1..Len(s)) \X (1..Len(s)) :
        /\ IsLetter(Ch(s, pl[1]))
        /\ pl[2] >= pl[1] + 3
        /\ AllCompanyChars(s, pl[1] + 1, pl[2] - 2)
        /\ IsSpace(Ch(s, pl[2] - 1))
        /\ WordAt(s, pl[2], word)}

\* What "from X" captures: from the leftmost place, the longest run of
\* company characters, stripped.
FromCapture(s) ==
    LET i == Min({pl[1] : pl \in FromPlaces(s)})
        g == CHOOSE g \in 1..Len(s) : <<i, g>> \in FromPlaces(s)
        e == Max({e \in (g + 1)..Len(s) : AllCompanyChars(s, g + 1, e)})
    IN  Strip(SubSeq(s, g, e))

\* What "X word" captures: from the leftmost place, the longest name,
\* stripped.
WordCapture(s, word) ==
    LET g == Min({pl[1] : pl \in WordPlaces(s, word)})
        a == Max({pl[2] : pl \in {q \in WordPlaces(s, word) : q[1] = g}})
    IN  Strip(SubSeq(s, g, a - 2))

\* The company of the first of the three patterns that matches.
FirstCapture(s) ==
    IF FromPlaces(s) # {} THEN FromCapture(s)
    ELSE IF WordPlaces(s, "analyst") # {} THEN WordCapture(s, "analyst")
    ELSE IF WordPlaces(s, "here") # {} THEN WordCapture(s, "here")
    ELSE "Unknown"

NoCompanyMention(s) ==
    /\ FromPlaces(s) = {}
    /\ WordPlaces(s, "analyst") = {}
    /\ WordPlaces(s, "here") = {}

\* C23 as stated: speaker is the speaker_name; without a company mention
\* and a role word, company is "Unknown" and role "Analyst"; role is
\* "Investor" whenever the text contains investor and "Fund Manager"
\* whenever it contains fund manager, whatever else it contains; company is
\* what the first matching pattern captures.
C23_RoleWordsAlwaysWin ==
    e_done =>
        /\ e_result.speaker = e_block.speaker_name
        /\ e_result.company = FirstCapture(ContextText)
        /\ (/\ NoCompanyMention(ContextText)
            /\ ~Contains(ContextText, "analyst")
            /\ ~Contains(ContextText, "investor")
            /\ ~Contains(ContextText, "fund"))
           => e_result.company = "Unknown" /\ e_result.role = "Analyst"
        /\ Contains(ContextText, "investor") => e_result.role = "Investor"
        /\ (Contains(ContextText, "fund manager")
            /\ ~Contains(ContextText, "investor"))
           => e_result.role = "Fund Manager"

\* C23 (amended): speaker is the speaker_name; company is what the first
\* matching pattern of "from X", "X analyst", "X here" captures, "Unknown"
\* when none matches; role is "Analyst" when the text contains analyst,
\* else "Investor" when it contains investor, else "Fund Manager" when it
\* contains fund, else "Analyst".
C23_RoleByPriority ==
    e_done =>
        /\ e_result.speaker = e_block.speaker_name
        /\ e_result.company = FirstCapture(ContextText)
        /\ e_result.role =
              IF Contains(ContextText, "analyst") THEN "Analyst"
              ELSE IF Contains(ContextText, "investor") THEN "Investor"
              ELSE IF Contains(ContextText, "fund") THEN "Fund Manager"
              ELSE "Analyst"

\* A text with "from X", "X analyst" and the word investor: the company is
\* the capture of "from X", the role stays "Analyst".
C23_Witness ==
    /\ e_done
    /\ ContextText = "Jo from Acme analyst and investor"
    /\ e_result.company = "Acme analyst and investor"
    /\ e_result.role = "Analyst"

(***************************************************************************)
(* The processing pipeline: what reaches basic_speaker_chunks.             *)
(***************************************************************************)
\* The lines of the extracted pages that open a speaker turn: <<n, i>> is
\* line i of page n, a line basic_speaker_chunks takes for a label line.
PageLines(n) == SplitLines(x_pages[n].text)

SpeakerTurns ==
    {t \in UNION {{<<n, i>> : i \in 1..Len(PageLines(n))} :
                     n \in {m \in 1..Len(x_pages) : x_pages[m].outcome = "text"}} :
        LineMatch(Strip(PageLines(t[1])[t[2]])).ok}

\* The lines handed to basic_speaker_chunks, and the chunks it returned.
ChunkedLines == SplitLines(g_opening_text) \o SplitLines(g_qa_text)

PipelineChunks == opening_chunks_raw \o qa_chunks_raw

\* C24: when the pipeline has chunked both sections of a text from which no
\* preamble was cut, every speaker turn of an extracted page has reached
\* basic_speaker_chunks as a line of its own and has come out as a chunk of
\* its own, with the turn's label as speaker_raw and the turn's message as
\* the first line of the text.
C24_TurnsOnSeparateLinesAreSeparateChunks ==
    (g_pc = "done" /\ g_full_text = x_result) =>
        \A t \in SpeakerTurns :
            \E m \in {LineMatch(Strip(PageLines(t[1])[t[2]]))} :
                /\ \E j \in 1..Len(ChunkedLines) :
                      Strip(ChunkedLines[j]) = Strip(PageLines(t[1])[t[2]])
                /\ \E n \in 1..Len(PipelineChunks) :
                      /\ PipelineChunks[n].speaker_raw = Strip(m.speaker)
                      /\ SplitLines(PipelineChunks[n].text)[1] = Strip(m.message)

\* C24: a page with two turns on two lines comes out as one chunk, the
\* second turn inside the text of the first.
C24_TwoTurnsOneChunk ==
    /\ g_pc = "done"
    /\ x_pages = <<Page("text", "AB C: hi\nJO D: yo")>>
    /\ g_opening_text = "AB C: hi JO D: yo"
    /\ opening_chunks_raw = <<Chunk("AB C", "hi JO D: yo")>>
    /\ qa_chunks_raw = <<>>

====
